---- MODULE Spec2Model ----
(***************************************************************************)
(* Tag registry (src/src/tag-provider/tag-provider.js) and tag groups      *)
(* (src/src/tag-provider/tag-group.js) of STLayinAlive as a state machine. *)
(* Every public method is one action; the helpers below compute what the   *)
(* JavaScript computes, on a record R holding the provider's four Maps.    *)
(***************************************************************************)
EXTENDS Integers, Sequences, FiniteSets, TLC

\* ------------------------------------------------------------ bounds
\* Operations per behaviour of Spec and of SpecGroups.
MaxSteps == 3
\* Subscriptions created per behaviour.
MaxSubs == 2
\* Largest reading of the millisecond clock.
MaxTime == 1
\* Writes beyond the history cap in SpecHistory.
MaxOver == 3

\* ------------------------------------------------------------ JavaScript values
Num(n) == [k |-> "number", n |-> n]
Bool(b) == [k |-> "boolean", n |-> IF b THEN 1 ELSE 0]
Null == [k |-> "null", n |-> 0]
Undefined == [k |-> "undefined", n |-> 0]

\* a ?? b
Nullish(a, b) == IF a = Null \/ a = Undefined THEN b ELSE a

\* !!v
Truthy(v) == v.k \in {"number", "boolean"} /\ v.n # 0

\* a < b on primitives: ToNumber(null) = 0, ToNumber(true) = 1, and
\* ToNumber(undefined) = NaN, which compares false with everything.
Lt(a, b) == a # Undefined /\ b # Undefined /\ a.n < b.n

\* a <= b on primitives (the same conversions).
Le(a, b) == a # Undefined /\ b # Undefined /\ a.n <= b.n

\* ------------------------------------------------------------ sequences and Maps
Range(s) == {s[i] : i \in 1..Len(s)}

\* Map.prototype.set on a Map held as a function.
MapSet(m, key, v) == [x \in DOMAIN m \cup {key} |-> IF x = key THEN v ELSE m[x]]

EmptyMap == [x \in {} |-> 0]

\* Array.prototype.slice(start) for an integer start (negative: from the end).
Slice(s, start) ==
  LET from == IF start < 0
              THEN (IF Len(s) + start < 0 THEN 0 ELSE Len(s) + start)
              ELSE (IF start > Len(s) THEN Len(s) ELSE start)
  IN SubSeq(s, from + 1, Len(s))

\* ------------------------------------------------------------ names
\* A name is the sequence of its characters, so that `${group}.${local}` is a
\* real concatenation and a glob is matched character by character.
Dot == "."
Star == "*"
NameAW == <<"a", Dot, "w">>
NameABW == <<"a", "b", "w">>

\* The history cap of setValue.
HistoryCap == 1000

\* ------------------------------------------------------------ TagProvider
\* new TagProvider(): four empty Maps. tagKeys is the key order of this.tags,
\* subs the closure state (tags, subscriptionId) of every subscribe() call,
\* calls and logged what one handler's callbacks were called with and how
\* many of their errors console.error reported. models are the ModelBase
\* objects the callbacks of bindTagsToParams write to, hooks the
\* onParameterChange calls of one handler, seen what the callbacks of one
\* handler read from the registry, now the reading of Date.now().
NewProvider ==
  [tags |-> EmptyMap, tagKeys |-> <<>>, subscribers |-> EmptyMap,
   history |-> EmptyMap, alarms |-> EmptyMap, subs |-> EmptyMap,
   calls |-> <<>>, logged |-> 0, models |-> <<>>, hooks |-> <<>>,
   seen |-> <<>>, now |-> 0]

\* RegisterTag with the log of a name that has one left as it is.
RegisterTagKeepsHistory(R, tagName, config, t) ==
  LET tag == [name |-> tagName,
              value |-> Nullish(config.defaultValue, Null),
              min |-> Nullish(config.min, Null),
              max |-> Nullish(config.max, Null),
              quality |-> "GOOD",
              timestamp |-> t,
              writeable |-> Nullish(config.writeable, Bool(TRUE))]
  IN [R EXCEPT !.tags = MapSet(R.tags, tagName, tag),
               !.tagKeys = IF tagName \in DOMAIN R.tags THEN @ ELSE Append(@, tagName),
               !.history = IF tagName \in DOMAIN R.history THEN @
                           ELSE MapSet(R.history, tagName, <<>>)]

RegisterTag(R, tagName, config, t) ==
  LET tag == [name |-> tagName,
              value |-> Nullish(config.defaultValue, Null),
              min |-> Nullish(config.min, Null),
              max |-> Nullish(config.max, Null),
              quality |-> "GOOD",
              timestamp |-> t,
              writeable |-> Nullish(config.writeable, Bool(TRUE))]
  IN [R EXCEPT !.tags = MapSet(R.tags, tagName, tag),
               !.tagKeys = IF tagName \in DOMAIN R.tags THEN @ ELSE Append(@, tagName),
               !.history = MapSet(R.history, tagName, <<>>)]

SetAlarm(R, tagName, severity, value, bound, t) ==
  LET list == IF tagName \in DOMAIN R.alarms THEN R.alarms[tagName] ELSE <<>>
  IN [R EXCEPT !.alarms = MapSet(R.alarms, tagName,
        Append(list, [severity |-> severity, value |-> value, bound |-> bound,
                      timestamp |-> t, acknowledged |-> FALSE]))]

\* Unsubscribe with the loop over the names left after its first round.
UnsubscribeFirstNameOnly(R, id) ==
  LET names == {Head(R.subs[id].tags)}
  IN [R EXCEPT !.subscribers =
        [n \in DOMAIN R.subscribers |->
           IF n \in names
           THEN SelectSeq(R.subscribers[n], LAMBDA e : e.id # id)
           ELSE R.subscribers[n]]]

\* The unsubscribe closure returned by subscribe().
Unsubscribe(R, id) ==
  LET names == Range(R.subs[id].tags)
  IN [R EXCEPT !.subscribers =
        [n \in DOMAIN R.subscribers |->
           IF n \in names
           THEN SelectSeq(R.subscribers[n], LAMBDA e : e.id # id)
           ELSE R.subscribers[n]]]

\* subscribe(tagNames, callback) with the fresh subscriptionId id; a name
\* given twice sets the same key twice, which leaves one entry.
Subscribe(R, tagNames, callback, id) ==
  LET names == Range(tagNames)
      old(n) == IF n \in DOMAIN R.subscribers THEN R.subscribers[n] ELSE <<>>
  IN [R EXCEPT !.subscribers =
        [n \in DOMAIN R.subscribers \cup names |->
           IF n \in names THEN Append(old(n), [id |-> id, cb |-> callback])
           ELSE R.subscribers[n]],
               !.subs = MapSet(R.subs, id, [tags |-> tagNames, callback |-> callback])]

\* ------------------------------------------------------------ reads
GetValue(R, tagName) ==
  IF tagName \in DOMAIN R.tags THEN R.tags[tagName].value ELSE Undefined

GetTag(R, tagName) ==
  IF tagName \in DOMAIN R.tags THEN R.tags[tagName] ELSE Undefined

\* (this.history.get(tagName) || []).slice(-limit)
GetHistory(R, tagName, limit) ==
  Slice(IF tagName \in DOMAIN R.history THEN R.history[tagName] ELSE <<>>, 0 - limit)

\* setValue called without options.
NoOptions == [quality |-> "undefined", force |-> FALSE]

\* ------------------------------------------------------------ callbacks
\* What a subscriber does when called: nothing, throw, or call the
\* unsubscribe function held in a variable that subscription `target` was
\* to be assigned to (calling it before the assignment is a TypeError).
CbNoop == [kind |-> "noop", target |-> 0, key |-> <<>>]
CbThrow == [kind |-> "throw", target |-> 0, key |-> <<>>]
CbUnsub(j) == [kind |-> "unsub", target |-> j, key |-> <<>>]

\* (value) => { if (value !== w) tags.setValue(tagName, w) }: a subscriber
\* that holds the tag it is subscribed to at the value w.
CbWrite(w) == [kind |-> "write", target |-> w, key |-> <<>>]

\* (value, oldValue, tag) => seen.push(...): a subscriber that reads the
\* registry (getValue, getHistory, the alarm list) when called.
CbRead == [kind |-> "read", target |-> 0, key |-> <<>>]

\* A callback that subscribes another callback (one that does nothing) to
\* the tag it is notified of.
CbSubscribe == [kind |-> "subscribe", target |-> 0, key |-> <<>>]

\* The callback bindTagsToParams subscribes for one key of model m:
\* (newValue) => { this.params[key] = newValue; this.onParameterChange(key, newValue) }
CbBind(m, key) == [kind |-> "bind", target |-> m, key |-> key]

\* onParameterChange(paramName, newValue) of model m, as the base class has
\* it: the call is recorded in hooks (metadata.modified is not modelled).
OnParameterChange(R, m, paramName, newValue) ==
  [R EXCEPT !.hooks = Append(@, [model |-> m, key |-> paramName, value |-> newValue])]

\* The body of the callback of bindTagsToParams.
BindCallback(R, m, key, newValue) ==
  OnParameterChange([R EXCEPT !.models[m].params[key] = newValue], m, key, newValue)

\* What CbRead records.
Observe(R, tagName, id) ==
  [R EXCEPT !.seen = Append(@, [id |-> id, value |-> GetValue(R, tagName),
                                last |-> GetHistory(R, tagName, 1),
                                alarms |-> IF tagName \in DOMAIN R.alarms
                                           THEN Len(R.alarms[tagName]) ELSE 0])]

RECURSIVE SetValue(_, _, _, _, _)

\* callback(value, oldValue, tag): the registry after it ran and whether it threw.
Callback(R, cb, tagName, value, oldValue, id) ==
  LET R1 == [R EXCEPT !.calls = Append(@, [id |-> id, name |-> tagName,
                 value |-> value, oldValue |-> oldValue, tag |-> R.tags[tagName]])]
  IN CASE cb.kind = "noop" -> [reg |-> R1, threw |-> FALSE]
       [] cb.kind = "throw" -> [reg |-> R1, threw |-> TRUE]
       [] cb.kind = "read" -> [reg |-> Observe(R1, tagName, id), threw |-> FALSE]
       [] cb.kind = "write" ->
            IF value = Num(cb.target) THEN [reg |-> R1, threw |-> FALSE]
            ELSE LET r == SetValue(R1, tagName, Num(cb.target), NoOptions, R1.now)
                 IN [reg |-> r.reg, threw |-> r.threw # "none"]
       [] cb.kind = "subscribe" ->
            [reg |-> Subscribe(R1, <<tagName>>, CbNoop, Cardinality(DOMAIN R1.subs) + 1),
             threw |-> FALSE]
       [] cb.kind = "bind" ->
            [reg |-> BindCallback(R1, cb.target, cb.key, value), threw |-> FALSE]
       [] cb.kind = "unsub" ->
            IF cb.target \in DOMAIN R1.subs
            THEN [reg |-> Unsubscribe(R1, cb.target), threw |-> FALSE]
            ELSE [reg |-> R1, threw |-> TRUE]

\* try { callback(...) } catch (error) { console.error(...) }
TryCallback(R, cb, tagName, value, oldValue, id) ==
  LET r == Callback(R, cb, tagName, value, oldValue, id)
  IN IF r.threw THEN [r.reg EXCEPT !.logged = @ + 1] ELSE r.reg

\* NextEntry with the entries taken from the end (a reversed iteration).
NextEntryReversed(entries, visited) ==
  LET pending == {i \in 1..Len(entries) : entries[i].id \notin visited}
  IN IF pending = {} THEN 0 ELSE CHOOSE i \in pending : \A j \in pending : i >= j

\* The entry Map.prototype.forEach visits next on the live Map: the first
\* entry not yet visited (a deleted entry is gone, an added one is at the end).
NextEntry(entries, visited) ==
  LET pending == {i \in 1..Len(entries) : entries[i].id \notin visited}
  IN IF pending = {} THEN 0 ELSE CHOOSE i \in pending : \A j \in pending : i <= j

\* ForEachSubscriber with the try/catch around the whole forEach: the first
\* callback that throws ends the pass.
RECURSIVE ForEachSubscriberStopAtThrow(_, _, _, _, _)
ForEachSubscriberStopAtThrow(R, tagName, value, oldValue, visited) ==
  LET entries == R.subscribers[tagName]
      i == NextEntry(entries, visited)
      r == Callback(R, entries[i].cb, tagName, value, oldValue, entries[i].id)
  IN IF i = 0 THEN R
     ELSE IF r.threw THEN [r.reg EXCEPT !.logged = @ + 1]
     ELSE ForEachSubscriberStopAtThrow(r.reg, tagName, value, oldValue,
                                       visited \cup {entries[i].id})

RECURSIVE ForEachSubscriber(_, _, _, _, _)
ForEachSubscriber(R, tagName, value, oldValue, visited) ==
  LET entries == R.subscribers[tagName]
      i == NextEntry(entries, visited)
  IN IF i = 0 THEN R
     ELSE ForEachSubscriber(
            TryCallback(R, entries[i].cb, tagName, value, oldValue, entries[i].id),
            tagName, value, oldValue, visited \cup {entries[i].id})

NotifySubscribers(R, tagName, value, oldValue) ==
  IF tagName \notin DOMAIN R.subscribers THEN R
  ELSE ForEachSubscriber(R, tagName, value, oldValue, {})

\* The config setValue registers an unknown tag with: { defaultValue: value }.
AutoConfig(value) ==
  [defaultValue |-> value, min |-> Undefined, max |-> Undefined, writeable |-> Undefined]

\* ReadOnlyViolation with the force flag read the wrong way round.
ReadOnlyViolationForceInverted(tag, options) == ~Truthy(tag.writeable) /\ options.force

\* !tag.writeable && !options.force
ReadOnlyViolation(tag, options) == ~Truthy(tag.writeable) /\ ~options.force

\* tag.min !== null && value < tag.min
BelowMin(tag, value) == tag.min # Null /\ Lt(value, tag.min)

\* tag.max !== null && value > tag.max
AboveMax(tag, value) == tag.max # Null /\ Lt(tag.max, value)

\* QualityOf ignoring the option: every write is stamped GOOD.
QualityOfAlwaysGood(options) == "GOOD"

\* options.quality ?? 'GOOD'
QualityOf(options) == IF options.quality = "undefined" THEN "GOOD" ELSE options.quality

\* PushHistory with pop() for shift(): at the cap the newest entry is dropped.
PushHistoryDropsNewest(log, entry) ==
  LET pushed == Append(log, entry)
  IN IF Len(pushed) > HistoryCap THEN SubSeq(pushed, 1, HistoryCap) ELSE pushed

\* PushHistory writing the entry over the newest one of the log.
PushHistoryReplacesLast(log, entry) ==
  IF log = <<>> THEN <<entry>> ELSE Append(SubSeq(log, 1, Len(log) - 1), entry)

\* history.push(entry); if (history.length > 1000) history.shift()
PushHistory(log, entry) ==
  LET pushed == Append(log, entry)
  IN IF Len(pushed) > HistoryCap THEN Tail(pushed) ELSE pushed

\* SetValue running the notification pass before it commits the value and
\* appends to the log.
SetValueNotifiesFirst(R, tagName, value, options, t) ==
  IF tagName \notin DOMAIN R.tags
  THEN SetValue(RegisterTag(R, tagName, AutoConfig(value), t), tagName, value, options, t)
  ELSE
    LET tag == R.tags[tagName] IN
    IF ReadOnlyViolation(tag, options)
    THEN [reg |-> R, threw |-> "ReadOnly", ret |-> Undefined]
    ELSE
      LET low == BelowMin(tag, value)
          R1 == IF low THEN SetAlarm(R, tagName, "LOW", value, tag.min, t) ELSE R
          v1 == IF low THEN tag.min ELSE value
          high == AboveMax(tag, v1)
          R2 == IF high THEN SetAlarm(R1, tagName, "HIGH", v1, tag.max, t) ELSE R1
          v2 == IF high THEN tag.max ELSE v1
          newTag == [tag EXCEPT !.value = v2, !.timestamp = t, !.quality = QualityOf(options)]
          entry == [value |-> v2, timestamp |-> t, quality |-> newTag.quality]
          R3 == NotifySubscribers(R2, tagName, v2, tag.value)
          R4 == [R3 EXCEPT !.tags[tagName] = newTag,
                           !.history[tagName] = PushHistory(@, entry)]
      IN [reg |-> R4, threw |-> "none", ret |-> R4.tags[tagName]]

\* setValue(tagName, value, options) at clock reading t: the registry after the
\* call, the error thrown ("none" when it returned) and the tag it returned.
SetValue(R, tagName, value, options, t) ==
  IF tagName \notin DOMAIN R.tags
  THEN SetValue(RegisterTag(R, tagName, AutoConfig(value), t), tagName, value, options, t)
  ELSE
    LET tag == R.tags[tagName] IN
    IF ReadOnlyViolation(tag, options)
    THEN [reg |-> R, threw |-> "ReadOnly", ret |-> Undefined]
    ELSE
      LET low == BelowMin(tag, value)
          R1 == IF low THEN SetAlarm(R, tagName, "LOW", value, tag.min, t) ELSE R
          v1 == IF low THEN tag.min ELSE value
          high == AboveMax(tag, v1)
          R2 == IF high THEN SetAlarm(R1, tagName, "HIGH", v1, tag.max, t) ELSE R1
          v2 == IF high THEN tag.max ELSE v1
          oldValue == tag.value
          newTag == [tag EXCEPT !.value = v2, !.timestamp = t, !.quality = QualityOf(options)]
          entry == [value |-> v2, timestamp |-> t, quality |-> newTag.quality]
          R3 == [R2 EXCEPT !.tags[tagName] = newTag,
                           !.history[tagName] = PushHistory(@, entry)]
          R4 == NotifySubscribers(R3, tagName, v2, oldValue)
      IN [reg |-> R4, threw |-> "none", ret |-> R4.tags[tagName]]

\* ------------------------------------------------------------ reads
\* new RegExp('^' + pattern.replace(/\*/g, '.*') + '$').test(name): a star
\* becomes '.*', and every other character stands in the regular expression
\* as it is, so a dot is the regular expression's any-character.
RECURSIVE RegexTest(_, _)
RegexTest(pattern, name) ==
  IF pattern = <<>> THEN name = <<>>
  ELSE IF Head(pattern) = Star
       THEN RegexTest(Tail(pattern), name)
            \/ (name # <<>> /\ RegexTest(pattern, Tail(name)))
       ELSE /\ name # <<>>
            /\ (Head(pattern) = Dot \/ Head(pattern) = Head(name))
            /\ RegexTest(Tail(pattern), Tail(name))

\* getTags(pattern): the matching tags, in the key order of this.tags.
GetTags(R, pattern) ==
  LET all == [i \in 1..Len(R.tagKeys) |-> R.tags[R.tagKeys[i]]]
  IN IF pattern = <<Star>> THEN all
     ELSE SelectSeq(all, LAMBDA tag : RegexTest(pattern, tag.name))

\* exportValues(tagNames): the result object as the sequence of its entries
\* (a key keeps the place of its first assignment); null exports every key.
RECURSIVE ExportEntries(_, _, _)
ExportEntries(R, names, acc) ==
  IF names = <<>> THEN acc
  ELSE LET n == Head(names)
           e == [name |-> n, record |-> TRUE, value |-> R.tags[n].value,
                 quality |-> R.tags[n].quality, timestamp |-> R.tags[n].timestamp]
           seen == {acc[i].name : i \in 1..Len(acc)}
           acc2 == IF n \notin DOMAIN R.tags THEN acc
                   ELSE IF n \in seen
                        THEN [i \in 1..Len(acc) |-> IF acc[i].name = n THEN e ELSE acc[i]]
                        ELSE Append(acc, e)
       IN ExportEntries(R, Tail(names), acc2)

ExportValues(R, tagNames) ==
  ExportEntries(R, IF tagNames = Null THEN R.tagKeys ELSE tagNames, <<>>)

\* importValues(data): an entry with record = TRUE is an object with a value
\* field, any other entry is the bare value; `'value' in null` is a TypeError,
\* which ends the forEach with the earlier entries applied.
RECURSIVE ImportValues(_, _, _)
ImportValues(R, data, t) ==
  IF data = <<>> THEN [reg |-> R, threw |-> "none"]
  ELSE LET e == Head(data)
       IN IF ~e.record /\ e.value = Null
          THEN [reg |-> R, threw |-> "TypeError"]
          ELSE LET r == SetValue(R, e.name, e.value,
                          [quality |-> IF e.record THEN e.quality ELSE "undefined",
                           force |-> TRUE], t)
               IN IF r.threw # "none" THEN [reg |-> r.reg, threw |-> r.threw]
                  ELSE ImportValues(r.reg, Tail(data), t)

\* Clear with the subscribers Map left as it is.
ClearKeepsSubscribers(R) ==
  [R EXCEPT !.tags = EmptyMap, !.tagKeys = <<>>, !.history = EmptyMap, !.alarms = EmptyMap]

\* clear(): the four Maps emptied; the closures of subscribe() live on.
Clear(R) ==
  [R EXCEPT !.tags = EmptyMap, !.tagKeys = <<>>, !.subscribers = EmptyMap,
            !.history = EmptyMap, !.alarms = EmptyMap]

\* ------------------------------------------------------------ TagGroup
\* `${this.name}.${localName}`
FullName(groupName, localName) == groupName \o <<Dot>> \o localName

\* addTag(localName, config) of the group named groupName whose Map is gtags:
\* the registry and the group's Map after the call.
AddTag(R, groupName, gtags, localName, config, t) ==
  LET fullName == FullName(groupName, localName)
  IN [reg |-> RegisterTag(R, fullName, config, t),
      gtags |-> MapSet(gtags, localName, fullName)]

\* GroupSetValue without the membership check: an unknown local name is
\* handed to the provider as it is.
GroupSetValueUnchecked(R, gtags, localName, value, options, t) ==
  SetValue(R, IF localName \in DOMAIN gtags THEN gtags[localName] ELSE localName,
           value, options, t)

\* TagGroup.setValue(localName, value, options)
GroupSetValue(R, gtags, localName, value, options, t) ==
  IF localName \notin DOMAIN gtags
  THEN [reg |-> R, threw |-> "TagNotInGroup", ret |-> Undefined]
  ELSE SetValue(R, gtags[localName], value, options, t)

\* TagGroup.getValue(localName)
GroupGetValue(R, gtags, localName) ==
  IF localName \in DOMAIN gtags
  THEN [threw |-> "none", ret |-> GetValue(R, gtags[localName])]
  ELSE [threw |-> "none", ret |-> Undefined]

\* TagGroup.subscribe(localName, callback), with the fresh subscriptionId id
GroupSubscribe(R, gtags, localName, callback, id) ==
  IF localName \notin DOMAIN gtags
  THEN [reg |-> R, threw |-> "TagNotInGroup"]
  ELSE [reg |-> Subscribe(R, <<gtags[localName]>>, callback, id), threw |-> "none"]

\* ------------------------------------------------------------ state
VARIABLES
  tags,         \* TagProvider.tags: name -> tag record
  tagKeys,      \* the key order of TagProvider.tags
  subscribers,  \* TagProvider.subscribers: name -> entries (id, callback) in key order
  history,      \* TagProvider.history: name -> entries, oldest first
  alarms,       \* TagProvider.alarms: name -> alarm records
  subs,         \* the closures of the subscribe() calls made so far
  groupTags,    \* the TagGroup objects: name, and tags (local name -> full name)
  models,       \* the ModelBase objects: name, params, tagGroup, constructed or not
  now,          \* Date.now()
  steps,        \* calls made so far
  lastOp,       \* the last call: its arguments, its outcome, the callbacks it ran
  written       \* SpecHistory: the values its setValue calls committed, oldest first

vars ==
  <<tags, tagKeys, subscribers, history, alarms, subs, groupTags, models, now, steps,
    lastOp, written>>

\* The provider as the handlers see it when a call starts.
Reg ==
  [tags |-> tags, tagKeys |-> tagKeys, subscribers |-> subscribers,
   history |-> history, alarms |-> alarms, subs |-> subs,
   calls |-> <<>>, logged |-> 0, models |-> models, hooks |-> <<>>,
   seen |-> <<>>, now |-> now]

Commit(R) ==
  /\ tags' = R.tags
  /\ tagKeys' = R.tagKeys
  /\ subscribers' = R.subscribers
  /\ history' = R.history
  /\ alarms' = R.alarms
  /\ subs' = R.subs
  /\ models' = R.models

Op(op, arg, value, options, threw, ret, R) ==
  [op |-> op, group |-> 0, arg |-> arg, value |-> value, options |-> options,
   threw |-> threw, ret |-> ret, calls |-> R.calls, logged |-> R.logged,
   hooks |-> R.hooks, seen |-> R.seen]

Step == steps' = steps + 1 /\ UNCHANGED now

Frame == UNCHANGED <<groupTags, written>>

\* ------------------------------------------------------------ inputs
Low == 2
High == 5

TagNames == {NameAW, NameABW}

Values == {Num(0), Num(3), Num(9)}

Config(d, lo, hi, w) == [defaultValue |-> d, min |-> lo, max |-> hi, writeable |-> w]

\* registerTag configs: no options at all, a default inside, outside or absent
\* with the bounds Low..High, bounds given the wrong way round, read-only tags.
Configs ==
  { Config(Undefined, Undefined, Undefined, Undefined),
    Config(Num(3), Num(Low), Num(High), Undefined),
    Config(Num(9), Num(Low), Num(High), Undefined),
    Config(Undefined, Num(Low), Num(High), Undefined),
    Config(Num(3), Num(High), Num(Low), Undefined),
    Config(Num(3), Undefined, Undefined, Bool(FALSE)),
    Config(Num(3), Num(Low), Num(High), Bool(FALSE)) }

OptionSets ==
  { NoOptions,
    [quality |-> "BAD", force |-> FALSE],
    [quality |-> "UNCERTAIN", force |-> TRUE],
    [quality |-> "undefined", force |-> TRUE] }

Patterns == {<<Star>>, NameAW, <<"a", Star>>}

Limits == {0, 1, 100}

\* ------------------------------------------------------------ actions
Init ==
  /\ tags = EmptyMap
  /\ tagKeys = <<>>
  /\ subscribers = EmptyMap
  /\ history = EmptyMap
  /\ alarms = EmptyMap
  /\ subs = EmptyMap
  /\ groupTags = <<>>
  /\ models = <<>>
  /\ written = <<>>
  /\ now = 0
  /\ steps = 0
  /\ lastOp = Op("new", <<>>, Undefined, NoOptions, "none", Undefined, NewProvider)

DoRegisterTag(tagName, config) ==
  LET R == RegisterTag(Reg, tagName, config, now)
  IN /\ Commit(R)
     /\ lastOp' = Op("registerTag", tagName, config, NoOptions, "none", R.tags[tagName], R)
     /\ Step
     /\ Frame

DoSetValue(tagName, value, options) ==
  LET r == SetValue(Reg, tagName, value, options, now)
  IN /\ Commit(r.reg)
     /\ lastOp' = Op("setValue", tagName, value, options, r.threw, r.ret, r.reg)
     /\ Step
     /\ Frame

DoGetValue(tagName) ==
  /\ lastOp' = Op("getValue", tagName, Undefined, NoOptions, "none", GetValue(Reg, tagName), Reg)
  /\ Step
  /\ UNCHANGED <<tags, tagKeys, subscribers, history, alarms, subs, models>>
  /\ Frame

DoGetTag(tagName) ==
  /\ lastOp' = Op("getTag", tagName, Undefined, NoOptions, "none", GetTag(Reg, tagName), Reg)
  /\ Step
  /\ UNCHANGED <<tags, tagKeys, subscribers, history, alarms, subs, models>>
  /\ Frame

DoGetHistory(tagName, limit) ==
  /\ lastOp' = Op("getHistory", tagName, Num(limit), NoOptions, "none",
                  GetHistory(Reg, tagName, limit), Reg)
  /\ Step
  /\ UNCHANGED <<tags, tagKeys, subscribers, history, alarms, subs, models>>
  /\ Frame

DoGetTags(pattern) ==
  /\ lastOp' = Op("getTags", pattern, Undefined, NoOptions, "none", GetTags(Reg, pattern), Reg)
  /\ Step
  /\ UNCHANGED <<tags, tagKeys, subscribers, history, alarms, subs, models>>
  /\ Frame

DoExportValues(tagName) ==
  /\ lastOp' = Op("exportValues", tagName, Undefined, NoOptions, "none",
                  ExportValues(Reg, <<tagName>>), Reg)
  /\ Step
  /\ UNCHANGED <<tags, tagKeys, subscribers, history, alarms, subs, models>>
  /\ Frame

\* tags.importValues(tags.exportValues())
DoRoundTrip ==
  LET snapshot == ExportValues(Reg, Null)
      r == ImportValues(Reg, snapshot, now)
  IN /\ Commit(r.reg)
     /\ lastOp' = Op("roundTrip", <<>>, Undefined, NoOptions, r.threw, snapshot, r.reg)
     /\ Step
     /\ Frame

DoClear ==
  LET R == Clear(Reg)
  IN /\ Commit(R)
     /\ lastOp' = Op("clear", <<>>, Undefined, NoOptions, "none", Undefined, R)
     /\ Step
     /\ Frame

\* The clock moves on between two calls.
Tick ==
  /\ now < MaxTime
  /\ now' = now + 1
  /\ UNCHANGED <<tags, tagKeys, subscribers, history, alarms, subs, models, steps, lastOp>>
  /\ Frame

InBudget == steps < MaxSteps

Next ==
  \/ \E n \in TagNames, c \in Configs : InBudget /\ DoRegisterTag(n, c)
  \/ \E n \in TagNames, v \in Values, o \in OptionSets : InBudget /\ DoSetValue(n, v, o)
  \/ \E n \in TagNames : InBudget /\ DoGetValue(n)
  \/ \E n \in TagNames : InBudget /\ DoGetTag(n)
  \/ \E n \in TagNames, l \in Limits : InBudget /\ DoGetHistory(n, l)
  \/ \E p \in Patterns : InBudget /\ DoGetTags(p)
  \/ \E n \in TagNames : InBudget /\ DoExportValues(n)
  \/ InBudget /\ DoRoundTrip
  \/ InBudget /\ DoClear
  \/ Tick

Spec == Init /\ [][Next]_vars

\* ------------------------------------------------------------ subscriptions
\* Operations per behaviour of SpecNotify.
MaxNotifySteps == 3

NotifyConfigs ==
  { Config(Undefined, Undefined, Undefined, Undefined),
    Config(Num(3), Num(Low), Num(High), Undefined),
    Config(Num(3), Num(Low), Num(High), Bool(FALSE)) }

NotifyValues == {Num(0), Num(3)}

NotifyOptions == {NoOptions, [quality |-> "BAD", force |-> FALSE]}

SubscribeNames == {<<NameAW>>, <<NameAW, NameABW>>}

Callbacks == {CbNoop, CbThrow} \cup {CbUnsub(j) : j \in 1..MaxSubs}

\* `sub_${Date.now()}_${Math.random()}`: an id no earlier call produced.
FreshId == Cardinality(DOMAIN subs) + 1

DoSubscribe(tagNames, callback) ==
  LET R == Subscribe(Reg, tagNames, callback, FreshId)
  IN /\ FreshId <= MaxSubs
     /\ Commit(R)
     /\ lastOp' = Op("subscribe", tagNames, Undefined, NoOptions, "none", Num(FreshId), R)
     /\ Step
     /\ Frame

\* A call of the function subscribe() returned.
DoUnsubscribe(id) ==
  LET R == Unsubscribe(Reg, id)
  IN /\ Commit(R)
     /\ lastOp' = Op("unsubscribe", <<>>, Undefined, NoOptions, "none", Num(id), R)
     /\ Step
     /\ Frame

\* The provider after registerTag(tagName, config) at time 0, nothing else done.
Registered(tagName, config) ==
  LET R == RegisterTag(NewProvider, tagName, config, 0)
  IN /\ tags = R.tags
     /\ tagKeys = R.tagKeys
     /\ subscribers = R.subscribers
     /\ history = R.history
     /\ alarms = R.alarms
     /\ subs = R.subs
     /\ groupTags = <<>>
     /\ models = <<>>
     /\ now = 0
     /\ steps = 0
     /\ lastOp = Op("registerTag", tagName, config, NoOptions, "none", R.tags[tagName], R)
     /\ written = <<>>

\* One tag is registered, with any of NotifyConfigs.
InitNotify == \E c \in NotifyConfigs : Registered(NameAW, c)

InNotifyBudget == steps < MaxNotifySteps

NextNotify ==
  \/ \E v \in NotifyValues, o \in NotifyOptions : InNotifyBudget /\ DoSetValue(NameAW, v, o)
  \/ \E ns \in SubscribeNames, cb \in Callbacks : InNotifyBudget /\ DoSubscribe(ns, cb)
  \/ \E id \in DOMAIN subs : InNotifyBudget /\ DoUnsubscribe(id)
  \/ Tick

SpecNotify == InitNotify /\ [][NextNotify]_vars

\* ------------------------------------------------------------ callbacks at work
\* Operations per behaviour of SpecCallbacks.
MaxCallbackSteps == 3

\* The name the docs subscribe under to hear of every tag.
NameStar == <<Star>>

\* The value the writing subscriber holds its tag at: inside Low..High.
Held == 3

CallbackConfigs ==
  { Config(Undefined, Undefined, Undefined, Undefined),
    Config(Num(9), Num(Low), Num(High), Undefined),
    Config(Num(9), Num(Low), Num(High), Bool(FALSE)) }

\* Subscribers that do nothing, read the registry or write the tag back,
\* under a tag's name (registered or not yet) or under '*'.
NextCallbacks ==
  \/ \E c \in CallbackConfigs : steps < MaxCallbackSteps /\ DoRegisterTag(NameAW, c)
  \/ \E n \in {NameAW, NameStar}, cb \in {CbNoop, CbRead, CbWrite(Held), CbSubscribe} :
       steps < MaxCallbackSteps /\ DoSubscribe(<<n>>, cb)
  \/ \E v \in Values, o \in NotifyOptions :
       steps < MaxCallbackSteps /\ DoSetValue(NameAW, v, o)
  \/ Tick

SpecCallbacks == Init /\ [][NextCallbacks]_vars

\* ------------------------------------------------------------ unsubscribing
\* Operations per behaviour of SpecUnsubscribe.
MaxUnsubscribeSteps == 5

\* Subscriptions come and go and the registry is cleared; nothing is written.
NextUnsubscribe ==
  \/ \E ns \in SubscribeNames \cup {<<NameABW>>}, cb \in {CbNoop, CbThrow} :
       steps < MaxUnsubscribeSteps /\ DoSubscribe(ns, cb)
  \/ \E id \in DOMAIN subs : steps < MaxUnsubscribeSteps /\ DoUnsubscribe(id)
  \/ steps < MaxUnsubscribeSteps /\ DoClear

SpecUnsubscribe == Init /\ [][NextUnsubscribe]_vars

\* ------------------------------------------------------------ importing
\* Operations per behaviour of SpecImport.
MaxImportSteps == 3

ImportEntry(name, record, value, quality) ==
  [name |-> name, record |-> record, value |-> value, quality |-> quality,
   timestamp |-> 0]

\* The objects given to importValues: bare numbers, records with a value
\* field (with and without a quality), a bare null after a bare number.
ImportData ==
  { <<ImportEntry(NameAW, FALSE, Num(9), "undefined")>>,
    <<ImportEntry(NameAW, TRUE, Num(0), "BAD"), ImportEntry(NameABW, FALSE, Num(3), "undefined")>>,
    <<ImportEntry(NameAW, TRUE, Null, "undefined")>>,
    <<ImportEntry(NameABW, FALSE, Num(3), "undefined"), ImportEntry(NameAW, FALSE, Null, "undefined")>> }

DoImportValues(data) ==
  LET r == ImportValues(Reg, data, now)
  IN /\ Commit(r.reg)
     /\ lastOp' = Op("importValues", data, Undefined, NoOptions, r.threw, Undefined, r.reg)
     /\ Step
     /\ Frame

NextImport ==
  \/ \E c \in Configs : steps < MaxImportSteps /\ DoRegisterTag(NameAW, c)
  \/ \E d \in ImportData : steps < MaxImportSteps /\ DoImportValues(d)
  \/ \E v \in Values, o \in OptionSets : steps < MaxImportSteps /\ DoSetValue(NameAW, v, o)
  \/ \E cb \in {CbNoop} : steps < MaxImportSteps /\ DoSubscribe(<<NameAW>>, cb)

SpecImport == Init /\ [][NextImport]_vars

\* ------------------------------------------------------------ history at its cap
HistoryTag == NameAW

\* A long run of writes to one tag: registered with any of Configs, written
\* with the values 0..9 in turn and, from MaxOver writes before the cap on,
\* with any of Values.
InitHistory == \E c \in Configs : Registered(HistoryTag, c)

DoLoggedSetValue(value) ==
  LET r == SetValue(Reg, HistoryTag, value, [quality |-> "undefined", force |-> TRUE], now)
  IN /\ Commit(r.reg)
     /\ lastOp' = Op("setValue", HistoryTag, value,
                     [quality |-> "undefined", force |-> TRUE], r.threw, r.ret, r.reg)
     /\ written' = IF r.threw = "none" THEN Append(written, r.reg.tags[HistoryTag].value)
                   ELSE written
     /\ Step
     /\ UNCHANGED groupTags

InHistoryBudget == steps < HistoryCap + MaxOver

NextHistory ==
  \/ /\ InHistoryBudget
     /\ steps < HistoryCap - MaxOver
     /\ DoLoggedSetValue(Num(steps % 10))
  \/ \E v \in Values :
       /\ InHistoryBudget
       /\ steps >= HistoryCap - MaxOver
       /\ DoLoggedSetValue(v)

SpecHistory == InitHistory /\ [][NextHistory]_vars

\* ------------------------------------------------------------ groups
\* Operations per behaviour of SpecGroups.
MaxGroupSteps == 5
\* TagGroup objects per behaviour.
MaxGroups == 2

GroupNames == {<<"a">>, <<"a", Dot, "b">>}

LocalNames == {<<"w">>, <<"b", Dot, "w">>}

GroupConfigs ==
  { Config(Num(3), Undefined, Undefined, Undefined),
    Config(Num(3), Num(Low), Num(High), Bool(FALSE)) }

GroupOp(op, g, localName, value, options, threw, ret, R) ==
  [Op(op, localName, value, options, threw, ret, R) EXCEPT !.group = g]

\* new TagGroup(name, tagProvider)
DoNewGroup(name) ==
  /\ Len(groupTags) < MaxGroups
  /\ groupTags' = Append(groupTags, [name |-> name, tags |-> EmptyMap])
  /\ lastOp' = GroupOp("new TagGroup", Len(groupTags) + 1, name, Undefined, NoOptions,
                       "none", Undefined, Reg)
  /\ Step
  /\ UNCHANGED <<tags, tagKeys, subscribers, history, alarms, subs, models, written>>

DoAddTag(g, localName, config) ==
  LET r == AddTag(Reg, groupTags[g].name, groupTags[g].tags, localName, config, now)
  IN /\ Commit(r.reg)
     /\ groupTags' = [groupTags EXCEPT ![g].tags = r.gtags]
     /\ lastOp' = GroupOp("addTag", g, localName, Undefined, NoOptions, "none",
                          r.reg.tags[r.gtags[localName]], r.reg)
     /\ Step
     /\ UNCHANGED written

DoGroupSetValue(g, localName, value, options) ==
  LET r == GroupSetValue(Reg, groupTags[g].tags, localName, value, options, now)
  IN /\ Commit(r.reg)
     /\ lastOp' = GroupOp("group.setValue", g, localName, value, options, r.threw, r.ret, r.reg)
     /\ Step
     /\ Frame

DoGroupGetValue(g, localName) ==
  LET r == GroupGetValue(Reg, groupTags[g].tags, localName)
  IN /\ lastOp' = GroupOp("group.getValue", g, localName, Undefined, NoOptions,
                          r.threw, r.ret, Reg)
     /\ Step
     /\ UNCHANGED <<tags, tagKeys, subscribers, history, alarms, subs, models>>
     /\ Frame

DoGroupSubscribe(g, localName, callback) ==
  LET r == GroupSubscribe(Reg, groupTags[g].tags, localName, callback, FreshId)
  IN /\ FreshId <= MaxSubs
     /\ Commit(r.reg)
     /\ lastOp' = GroupOp("group.subscribe", g, localName, Undefined, NoOptions,
                          r.threw, Num(FreshId), r.reg)
     /\ Step
     /\ Frame

Groups == 1..Len(groupTags)

InGroupBudget == steps < MaxGroupSteps

NextGroups ==
  \/ \E name \in GroupNames : InGroupBudget /\ DoNewGroup(name)
  \/ \E g \in Groups, l \in LocalNames, c \in GroupConfigs : InGroupBudget /\ DoAddTag(g, l, c)
  \/ \E g \in Groups, l \in LocalNames, v \in NotifyValues, o \in NotifyOptions :
       InGroupBudget /\ DoGroupSetValue(g, l, v, o)
  \/ \E g \in Groups, l \in LocalNames : InGroupBudget /\ DoGroupGetValue(g, l)
  \/ \E g \in Groups, l \in LocalNames, cb \in {CbNoop, CbThrow} :
       InGroupBudget /\ DoGroupSubscribe(g, l, cb)

SpecGroups == Init /\ [][NextGroups]_vars

\* ------------------------------------------------------------ ModelBase
\* A JavaScript object literal is the sequence of its entries (key, value).
Entry(key, value) == [key |-> key, value |-> value]

Keys(obj) == [i \in 1..Len(obj) |-> obj[i].key]

\* getDefaultParams() of the concrete model: two numeric parameters.
GetDefaultParams == <<Entry(<<"w">>, Num(3)), Entry(<<"h">>, Num(0))>>

\* { ...a, ...b }: the keys of a in their order, then the new keys of b; a
\* key of both holds the value b gives it.
Spread(a, b) ==
  LET get(obj, k) == obj[CHOOSE i \in 1..Len(obj) : obj[i].key = k].value
      keys == Keys(a) \o SelectSeq(Keys(b), LAMBDA k : k \notin Range(Keys(a)))
  IN [keys |-> keys,
      params |-> [k \in Range(keys) |->
                    IF k \in Range(Keys(b)) THEN get(b, k) ELSE get(a, k)]]

\* TagGroup.setValues(values)
RECURSIVE GroupSetValues(_, _, _, _)
GroupSetValues(R, gtags, values, t) ==
  IF values = <<>> THEN [reg |-> R, threw |-> "none"]
  ELSE LET r == GroupSetValue(R, gtags, Head(values).key, Head(values).value, NoOptions, t)
       IN IF r.threw # "none" THEN [reg |-> r.reg, threw |-> r.threw]
          ELSE GroupSetValues(r.reg, gtags, Tail(values), t)

\* registerTags(): addTag(key, { defaultValue: value, ... }) for every entry
\* of getDefaultParams().
RECURSIVE RegisterTags(_, _, _, _, _)
RegisterTags(R, groupName, gtags, defaults, t) ==
  IF defaults = <<>> THEN [reg |-> R, gtags |-> gtags]
  ELSE LET r == AddTag(R, groupName, gtags, Head(defaults).key,
                       Config(Head(defaults).value, Undefined, Undefined, Undefined), t)
       IN RegisterTags(r.reg, groupName, r.gtags, Tail(defaults), t)

\* bindTagsToParams() of model m: tagGroup.subscribe(key, ...) for every key
\* of this.params; a key the group does not have ends the loop with its error.
RECURSIVE BindTagsToParams(_, _, _, _)
BindTagsToParams(R, m, gtags, keys) ==
  IF keys = <<>> THEN [reg |-> R, threw |-> "none"]
  ELSE LET r == GroupSubscribe(R, gtags, Head(keys), CbBind(m, Head(keys)),
                               Cardinality(DOMAIN R.subs) + 1)
       IN IF r.threw # "none" THEN r
          ELSE BindTagsToParams(r.reg, m, gtags, Tail(keys))

\* NewModel with the tags registered from this.params, the defaults overlaid
\* with the supplied params, instead of from getDefaultParams().
NewModelRegistersParams(R, name, params, g, t) ==
  LET m == Len(R.models) + 1
      own == Spread(GetDefaultParams, params)
      R1 == [R EXCEPT !.models = Append(@, [name |-> name, params |-> own.params,
               paramKeys |-> own.keys, tagGroup |-> g, constructed |-> FALSE])]
      r2 == RegisterTags(R1, name, EmptyMap,
                         [i \in 1..Len(own.keys) |->
                            Entry(own.keys[i], own.params[own.keys[i]])], t)
      r3 == BindTagsToParams(r2.reg, m, r2.gtags, own.keys)
  IN [reg |-> [r3.reg EXCEPT !.models[m].constructed = (r3.threw = "none")],
      gtags |-> r2.gtags, threw |-> r3.threw]

\* new ModelBase(name, params, tagProvider), as model number Len(models) + 1
\* with tag group number g: the registry, the group's Map and the error
\* thrown. constructed tells whether the caller got the object.
NewModel(R, name, params, g, t) ==
  LET m == Len(R.models) + 1
      own == Spread(GetDefaultParams, params)
      R1 == [R EXCEPT !.models = Append(@, [name |-> name, params |-> own.params,
               paramKeys |-> own.keys, tagGroup |-> g, constructed |-> FALSE])]
      r2 == RegisterTags(R1, name, EmptyMap, GetDefaultParams, t)
      r3 == BindTagsToParams(r2.reg, m, r2.gtags, own.keys)
  IN [reg |-> [r3.reg EXCEPT !.models[m].constructed = (r3.threw = "none")],
      gtags |-> r2.gtags, threw |-> r3.threw]

\* A non-primitive value: an object, a Map.
Object == [k |-> "object", n |-> 0]

\* A TagProvider as an object spread sees it: its own enumerable properties.
Provider ==
  <<Entry(<<"tags">>, Object), Entry(<<"subscribers">>, Object),
    Entry(<<"history">>, Object), Entry(<<"alarms">>, Object)>>

\* The constructor of ModelBase for every value of tagProvider: null (the
\* default) skips the tag group, registerTags and bindTagsToParams. bound
\* tells whether a TagGroup was made.
ModelBaseConstructor(R, name, params, tagProvider, g, t) ==
  IF tagProvider = Null
  THEN LET own == Spread(GetDefaultParams, params)
       IN [reg |-> [R EXCEPT !.models = Append(@, [name |-> name, params |-> own.params,
                       paramKeys |-> own.keys, tagGroup |-> 0, constructed |-> TRUE])],
           gtags |-> EmptyMap, threw |-> "none", bound |-> FALSE]
  ELSE LET r == NewModel(R, name, params, g, t)
       IN [reg |-> r.reg, gtags |-> r.gtags, threw |-> r.threw, bound |-> TRUE]

\* new ModelClass(params, tagProvider) of a concrete model that declares no
\* constructor (MountingBracket, CableClip): the implicit constructor hands
\* its arguments on in their order, so params arrives as name, the provider
\* as params, and tagProvider takes its default.
NewModelClass(R, params, tagProvider, g, t) ==
  ModelBaseConstructor(R, params, tagProvider, Null, g, t)

\* The name TokenBase hands to ModelBase.
TokenName == <<"t", "o", "k", "e", "n">>

\* The names the token classes give themselves.
RoundTokenName == <<"r", "o", "u", "n", "d", "-">> \o TokenName
SquareTokenName == <<"s", "q", "u", "a", "r", "e", "-">> \o TokenName

\* new TokenBase(params, tagProvider): super('token', params, tagProvider)
NewTokenBase(R, params, tagProvider, g, t) ==
  ModelBaseConstructor(R, TokenName, params, tagProvider, g, t)

\* new RoundToken(params, tagProvider), new SquareToken(...), new
\* HexToken(...): super(params, tagProvider), then this.name = className,
\* when the tag group has been made and named already.
NewToken(R, className, params, tagProvider, g, t) ==
  LET m == Len(R.models) + 1
      r == NewTokenBase(R, params, tagProvider, g, t)
  IN IF r.threw # "none" THEN r
     ELSE [r EXCEPT !.reg.models[m].name = className]

\* model.tagGroup.subscribe(key, callback): a property read of undefined
\* when the model has no tag group.
ModelGroupSubscribe(R, m, gtags, key, callback) ==
  IF R.models[m].tagGroup = 0 THEN [reg |-> R, threw |-> "TypeError"]
  ELSE GroupSubscribe(R, gtags, key, callback, Cardinality(DOMAIN R.subs) + 1)

\* SetParam with a call of the hook after the local assignment.
SetParamCallsHook(R, m, gtags, key, value, t) ==
  LET R1 == [R EXCEPT !.models[m].params = MapSet(@, key, value),
                      !.models[m].paramKeys =
                         IF key \in Range(@) THEN @ ELSE Append(@, key)]
  IN IF R.models[m].tagGroup = 0
     THEN [reg |-> OnParameterChange(R1, m, key, value), threw |-> "none", ret |-> Undefined]
     ELSE GroupSetValue(OnParameterChange(R1, m, key, value), gtags, key, value,
                        NoOptions, t)

\* SetParam pushing the value to the tag a second time when the first push
\* was accepted.
SetParamWritesTwice(R, m, gtags, key, value, t) ==
  LET R1 == [R EXCEPT !.models[m].params = MapSet(@, key, value),
                      !.models[m].paramKeys =
                         IF key \in Range(@) THEN @ ELSE Append(@, key)]
  IN IF R.models[m].tagGroup = 0
     THEN [reg |-> R1, threw |-> "none", ret |-> Undefined]
     ELSE LET r == GroupSetValue(R1, gtags, key, value, NoOptions, t)
          IN IF r.threw # "none" THEN r
             ELSE GroupSetValue(r.reg, gtags, key, value, NoOptions, t)

\* setParam(key, value) of model m, whose group's Map is gtags; tagGroup 0
\* is a model without a tag group, which only assigns.
SetParam(R, m, gtags, key, value, t) ==
  LET R1 == [R EXCEPT !.models[m].params = MapSet(@, key, value),
                      !.models[m].paramKeys =
                         IF key \in Range(@) THEN @ ELSE Append(@, key)]
  IN IF R.models[m].tagGroup = 0
     THEN [reg |-> R1, threw |-> "none", ret |-> Undefined]
     ELSE GroupSetValue(R1, gtags, key, value, NoOptions, t)

\* SetParams with a try/catch around each entry: the entries after a failing
\* one are applied too, and the error is reported at the end.
RECURSIVE SetParamsContinue(_, _, _, _, _)
SetParamsContinue(R, m, gtags, params, t) ==
  IF params = <<>> THEN [reg |-> R, threw |-> "none"]
  ELSE LET r == SetParam(R, m, gtags, Head(params).key, Head(params).value, t)
           rest == SetParamsContinue(r.reg, m, gtags, Tail(params), t)
       IN [reg |-> rest.reg, threw |-> IF r.threw # "none" THEN r.threw ELSE rest.threw]

\* setParams(params) of model m
RECURSIVE SetParams(_, _, _, _, _)
SetParams(R, m, gtags, params, t) ==
  IF params = <<>> THEN [reg |-> R, threw |-> "none"]
  ELSE LET r == SetParam(R, m, gtags, Head(params).key, Head(params).value, t)
       IN IF r.threw # "none" THEN [reg |-> r.reg, threw |-> r.threw]
          ELSE SetParams(r.reg, m, gtags, Tail(params), t)

\* ------------------------------------------------------------ models
\* Operations per behaviour of SpecModel.
MaxModelSteps == 4
\* ModelBase objects per behaviour.
MaxModels == 1

ModelName == <<"m">>

ParamKeys == {<<"w">>, <<"h">>, <<"x">>}

\* The params argument of the constructor: none, an override of a declared
\* key, a key that getDefaultParams() does not declare.
SuppliedParams == {<<>>, <<Entry(<<"w">>, Num(9))>>, <<Entry(<<"x">>, Num(9))>>}

\* The tag the rest of the program registers, writes and subscribes to.
ModelTag == FullName(ModelName, <<"w">>)

ModelConfigs ==
  { Config(Num(3), Num(Low), Num(High), Undefined),
    Config(Num(3), Num(High), Num(Low), Undefined),
    Config(Num(3), Num(Low), Num(High), Bool(FALSE)) }

\* The arguments of setParams and setValues: two entries, the first or the
\* second of which may name a key the group does not have.
Mappings ==
  { <<Entry(<<"w">>, Num(9)), Entry(<<"h">>, Num(3))>>,
    <<Entry(<<"h">>, Num(9)), Entry(<<"x">>, Num(3)), Entry(<<"w">>, Num(0))>>,
    <<Entry(<<"h">>, Num(3)), Entry(<<"w">>, Num(0))>> }

ModelOp(op, m, key, value, threw, ret, R) ==
  [Op(op, key, value, NoOptions, threw, ret, R) EXCEPT !.group = m]

DoNewModel(name, params) ==
  LET g == Len(groupTags) + 1
      r == NewModel(Reg, name, params, g, now)
  IN /\ Len(models) < MaxModels
     /\ Commit(r.reg)
     /\ groupTags' = Append(groupTags, [name |-> name, tags |-> r.gtags])
     /\ lastOp' = ModelOp("new ModelBase", Len(models) + 1, params, Undefined,
                          r.threw, Undefined, r.reg)
     /\ Step
     /\ UNCHANGED written

\* this.tagGroup.tags of model m
TagsOf(m) ==
  IF models[m].tagGroup = 0 THEN EmptyMap ELSE groupTags[models[m].tagGroup].tags

DoSetParam(m, key, value) ==
  LET r == SetParam(Reg, m, TagsOf(m), key, value, now)
  IN /\ models[m].constructed
     /\ Commit(r.reg)
     /\ lastOp' = ModelOp("setParam", m, key, value, r.threw, Undefined, r.reg)
     /\ Step
     /\ Frame

DoSetParams(m, params) ==
  LET r == SetParams(Reg, m, TagsOf(m), params, now)
  IN /\ models[m].constructed
     /\ Commit(r.reg)
     /\ lastOp' = ModelOp("setParams", m, params, Undefined, r.threw, Undefined, r.reg)
     /\ Step
     /\ Frame

\* model.tagGroup.setValues(values)
DoGroupSetValues(g, values) ==
  LET r == GroupSetValues(Reg, groupTags[g].tags, values, now)
  IN /\ Commit(r.reg)
     /\ lastOp' = GroupOp("group.setValues", g, values, Undefined, NoOptions,
                          r.threw, Undefined, r.reg)
     /\ Step
     /\ Frame

InModelBudget == steps < MaxModelSteps

NextModel ==
  \/ \E p \in SuppliedParams : InModelBudget /\ DoNewModel(ModelName, p)
  \/ \E m \in 1..Len(models), k \in ParamKeys, v \in Values :
       InModelBudget /\ DoSetParam(m, k, v)
  \/ \E m \in 1..Len(models), p \in Mappings : InModelBudget /\ DoSetParams(m, p)
  \/ \E g \in Groups, p \in Mappings : InModelBudget /\ DoGroupSetValues(g, p)
  \/ \E v \in Values, o \in NotifyOptions : InModelBudget /\ DoSetValue(ModelTag, v, o)
  \/ \E c \in ModelConfigs : InModelBudget /\ DoRegisterTag(ModelTag, c)
  \/ \E cb \in {CbNoop, CbThrow} : InModelBudget /\ DoSubscribe(<<ModelTag>>, cb)
  \/ InModelBudget /\ DoClear

SpecModel == Init /\ [][NextModel]_vars

\* ------------------------------------------------------------ concrete models
\* Operations per behaviour of SpecConcrete.
MaxConcreteSteps == 3

\* new MountingBracket(params, tags)
DoNewModelClass(params) ==
  LET g == Len(groupTags) + 1
      r == NewModelClass(Reg, params, Provider, g, now)
  IN /\ Len(models) < MaxModels
     /\ Commit(r.reg)
     /\ groupTags' = IF r.bound THEN Append(groupTags, [name |-> params, tags |-> r.gtags])
                     ELSE groupTags
     /\ lastOp' = ModelOp("new ModelClass", Len(models) + 1, params, Undefined,
                          r.threw, Undefined, r.reg)
     /\ Step
     /\ UNCHANGED written

DoModelGroupSubscribe(m, key, callback) ==
  LET r == ModelGroupSubscribe(Reg, m, TagsOf(m), key, callback)
  IN /\ models[m].constructed
     /\ Cardinality(DOMAIN subs) < MaxSubs
     /\ Commit(r.reg)
     /\ lastOp' = ModelOp("tagGroup.subscribe", m, key, Undefined, r.threw, Undefined, r.reg)
     /\ Step
     /\ Frame

NextConcrete ==
  \/ \E p \in SuppliedParams : steps < MaxConcreteSteps /\ DoNewModelClass(p)
  \/ \E m \in 1..Len(models), k \in ParamKeys, v \in Values :
       steps < MaxConcreteSteps /\ DoSetParam(m, k, v)
  \/ \E m \in 1..Len(models), k \in ParamKeys, cb \in {CbNoop, CbThrow} :
       steps < MaxConcreteSteps /\ DoModelGroupSubscribe(m, k, cb)
  \/ \E v \in Values : steps < MaxConcreteSteps /\ DoSetValue(ModelTag, v, NoOptions)
  \/ \E n \in {ModelTag} : steps < MaxConcreteSteps /\ DoGetValue(n)

SpecConcrete == Init /\ [][NextConcrete]_vars

\* ------------------------------------------------------------ several models
\* Operations per behaviour of SpecInstances.
MaxInstanceSteps == 3
\* Models per behaviour of SpecInstances.
MaxInstances == 2

\* The names given to ModelBase objects, which two objects may share.
InstanceNames == {ModelName, <<"n">>}

TokenClasses == {RoundTokenName, SquareTokenName}

\* new ModelBase(name, {}, tags), any number of times with one name
DoNewInstance(name) ==
  LET g == Len(groupTags) + 1
      r == ModelBaseConstructor(Reg, name, <<>>, Provider, g, now)
  IN /\ Len(models) < MaxInstances
     /\ Commit(r.reg)
     /\ groupTags' = Append(groupTags, [name |-> name, tags |-> r.gtags])
     /\ lastOp' = ModelOp("new ModelBase", Len(models) + 1, <<>>, Undefined,
                          r.threw, Undefined, r.reg)
     /\ Step
     /\ UNCHANGED written

\* new RoundToken({}, tags), new SquareToken({}, tags)
DoNewToken(className) ==
  LET g == Len(groupTags) + 1
      r == NewToken(Reg, className, <<>>, Provider, g, now)
  IN /\ Len(models) < MaxInstances
     /\ Commit(r.reg)
     /\ groupTags' = Append(groupTags, [name |-> TokenName, tags |-> r.gtags])
     /\ lastOp' = ModelOp("new Token", Len(models) + 1, <<>>, Undefined,
                          r.threw, Undefined, r.reg)
     /\ Step
     /\ UNCHANGED written

NextInstances ==
  \/ \E name \in InstanceNames : steps < MaxInstanceSteps /\ DoNewInstance(name)
  \/ \E c \in TokenClasses : steps < MaxInstanceSteps /\ DoNewToken(c)
  \/ \E m \in 1..Len(models), v \in Values :
       steps < MaxInstanceSteps /\ DoSetParam(m, <<"w">>, v)

SpecInstances == Init /\ [][NextInstances]_vars


\* ------------------------------------------------------------ claims
\* The transition is one call of the provider's or a group's API.
Called(op) == steps' = steps + 1 /\ lastOp'.op = op

ProviderUnchanged == UNCHANGED <<tags, tagKeys, subscribers, history, alarms>>

InRange(tag, v) == Le(tag.min, v) /\ Le(v, tag.max)

\* C1 (as the spec states it): after every accepted setValue on a tag with
\* both min and max set, min <= stored <= max, and stored is the value passed
\* in exactly when that value was within the bounds. registerTag accepts
\* min > max, and there the second clamp leaves the value below min.
C1_ClampingInvariant ==
  (lastOp.op = "setValue" /\ lastOp.threw = "none"
     /\ lastOp.ret.min # Null /\ lastOp.ret.max # Null)
  => /\ InRange(lastOp.ret, tags[lastOp.arg].value)
     /\ (tags[lastOp.arg].value = lastOp.value <=> InRange(lastOp.ret, lastOp.value))

IsRead(op) == op \in {"getValue", "getTag", "getHistory", "getTags", "exportValues"}

EmptyResult(op, ret) ==
  IF op \in {"getValue", "getTag"} THEN ret = Undefined ELSE Len(ret) = 0

\* C7 (as the spec states it): a read (getValue, getTag, getHistory, getTags,
\* exportValues) of a name that is not registered changes nothing and yields
\* undefined or an empty result; setValue on such a name registers it as a
\* writeable tag without bounds, succeeds, and getValue then returns the value.
C7_ReadsNeverCreateWritesDo ==
  [][ (steps' = steps + 1 /\ lastOp'.arg \in TagNames /\ lastOp'.arg \notin DOMAIN tags)
      => /\ IsRead(lastOp'.op)
            => ProviderUnchanged /\ EmptyResult(lastOp'.op, lastOp'.ret)
         /\ lastOp'.op = "setValue"
            => /\ lastOp'.threw = "none"
               /\ lastOp'.arg \in DOMAIN tags'
               /\ Truthy(tags'[lastOp'.arg].writeable)
               /\ tags'[lastOp'.arg].min = Null
               /\ tags'[lastOp'.arg].max = Null
               /\ tags'[lastOp'.arg].value = lastOp'.value ]_vars

\* C10 (as the spec states it): importValues(exportValues()) leaves every
\* tag's value and quality as they were.
C10_RoundTripKeepsValues ==
  [][ Called("roundTrip")
      => /\ DOMAIN tags' = DOMAIN tags
         /\ \A n \in DOMAIN tags :
              tags'[n].value = tags[n].value /\ tags'[n].quality = tags[n].quality ]_vars

\* C2: no history log ever holds more than HistoryCap entries, and after more
\* than HistoryCap accepted writes to one tag getHistory(name, HistoryCap)
\* returns exactly HistoryCap entries, whose values are the values the most
\* recent HistoryCap writes committed, oldest first.
C2_HistoryBound ==
  /\ \A n \in DOMAIN history : Len(history[n]) <= HistoryCap
  /\ Len(written) > HistoryCap
     => LET recent == GetHistory(Reg, HistoryTag, HistoryCap)
        IN /\ Len(recent) = HistoryCap
           /\ \A i \in 1..HistoryCap :
                recent[i].value = written[Len(written) - HistoryCap + i]

\* Two entries were evicted, a write was clamped, and the log is not constant.
C2_Witness ==
  /\ Len(written) = HistoryCap + 2
  /\ HistoryTag \in DOMAIN alarms
  /\ written[HistoryCap + 2] # written[HistoryCap + 1]
  /\ written[3] # written[4]
  /\ history[HistoryTag][1].value = written[3]

SubsOf(m, tagName) == IF tagName \in DOMAIN m THEN m[tagName] ELSE <<>>

Ids(entries) == [i \in 1..Len(entries) |-> entries[i].id]

\* C3: setValue without force on a registered tag that is not writeable throws
\* the read-only error and changes nothing: tags, history, alarms and
\* subscriptions are as before and no callback ran.
C3_ReadOnlyRejected ==
  [][ (Called("setValue") /\ lastOp'.arg \in DOMAIN tags
         /\ ~Truthy(tags[lastOp'.arg].writeable) /\ ~lastOp'.options.force)
      => /\ lastOp'.threw = "ReadOnly"
         /\ ProviderUnchanged
         /\ subs' = subs
         /\ lastOp'.calls = <<>> ]_vars

\* A rejected write of a value below the tag's minimum, with a subscriber waiting.
C3_Witness ==
  /\ lastOp.op = "setValue"
  /\ lastOp.threw = "ReadOnly"
  /\ BelowMin(tags[lastOp.arg], lastOp.value)
  /\ Len(SubsOf(subscribers, lastOp.arg)) > 0

\* The callback neither subscribes, unsubscribes nor writes.
Passive(cb) == cb.kind \in {"noop", "throw"}

\* C4: with k subscriptions on a registered tag T whose callbacks neither
\* subscribe, unsubscribe nor write, an accepted setValue(T, x) calls each of
\* them exactly once, in the order they were registered, with the stored
\* (clamped) new value, the value stored before the write and the tag record.
C4_FanOutInOrder ==
  [][ (Called("setValue") /\ lastOp'.threw = "none" /\ lastOp'.arg \in DOMAIN tags
         /\ \A i \in 1..Len(SubsOf(subscribers, lastOp'.arg)) :
              Passive(SubsOf(subscribers, lastOp'.arg)[i].cb))
      => LET T == lastOp'.arg
             entries == SubsOf(subscribers, T)
         IN lastOp'.calls =
              [i \in 1..Len(entries) |->
                 [id |-> entries[i].id, name |-> T, value |-> tags'[T].value,
                  oldValue |-> tags[T].value, tag |-> tags'[T]]] ]_vars

\* Two callbacks ran, in registration order, on a write that was clamped.
C4_Witness ==
  /\ lastOp.op = "setValue"
  /\ Len(lastOp.calls) = 2
  /\ lastOp.calls[1].id < lastOp.calls[2].id
  /\ lastOp.calls[1].value # lastOp.value
  /\ lastOp.calls[1].oldValue # lastOp.calls[1].value

\* The callback throws when called in the state with the closures subs.
Throws(cb) == cb.kind = "throw" \/ (cb.kind = "unsub" /\ cb.target \notin DOMAIN subs)

\* The provider with every throwing callback of tagName made to return normally.
WithoutThrows(R, tagName) ==
  [R EXCEPT !.subscribers =
     [n \in DOMAIN R.subscribers |->
        IF n # tagName THEN R.subscribers[n]
        ELSE [i \in 1..Len(R.subscribers[n]) |->
                IF Throws(R.subscribers[n][i].cb)
                THEN [id |-> R.subscribers[n][i].id, cb |-> CbNoop]
                ELSE R.subscribers[n][i]]]]

\* C5: when a callback throws during the pass of an accepted setValue, the
\* call still returns the updated tag, the write stays committed (value,
\* timestamp, quality, history entry), and the pass calls exactly the
\* subscribers it would call had the callback returned normally: all of them,
\* in order, when no callback of the pass unsubscribes.
C5_ThrowingCallbackIsolated ==
  [][ (Called("setValue") /\ lastOp'.logged > 0)
      => LET T == lastOp'.arg
             entries == SubsOf(subscribers, T)
             calm == SetValue(WithoutThrows(Reg, T), T, lastOp'.value, lastOp'.options, now)
         IN /\ lastOp'.threw = "none"
            /\ lastOp'.ret = tags'[T]
            /\ tags'[T].timestamp = now
            /\ tags'[T].quality = QualityOf(lastOp'.options)
            /\ Len(history'[T]) > 0
            /\ history'[T][Len(history'[T])] =
                 [value |-> tags'[T].value, timestamp |-> now,
                  quality |-> tags'[T].quality]
            /\ Ids(lastOp'.calls) = Ids(calm.reg.calls)
            /\ (\A i \in 1..Len(entries) : Passive(entries[i].cb) \/ Throws(entries[i].cb))
               => Ids(lastOp'.calls) = Ids(entries) ]_vars

\* The first callback threw and the second was still called.
C5_Witness ==
  /\ lastOp.op = "setValue"
  /\ lastOp.threw = "none"
  /\ lastOp.logged = 1
  /\ Len(lastOp.calls) = 2
  /\ subscribers[lastOp.arg][1].cb = CbThrow
  /\ subscribers[lastOp.arg][2].cb = CbNoop

\* C6 (as the spec states it): the callbacks a pass delivers to are the ones
\* registered when the pass started, also when one of them unsubscribes
\* another that the pass has not reached yet.
C6_PassDeliversToAllRegistered ==
  [][ (Called("setValue") /\ lastOp'.threw = "none")
      => Range(Ids(lastOp'.calls)) = Range(Ids(SubsOf(subscribers, lastOp'.arg))) ]_vars

\* C8 (as the spec states it): addTag or setValue through one group changes
\* no value, history or subscription of a tag of a group with another name.
C8_GroupIsolation ==
  [][ (steps' = steps + 1 /\ lastOp'.op \in {"addTag", "group.setValue"})
      => \A h \in Groups :
           groupTags[h].name # groupTags[lastOp'.group].name
           => \A l \in DOMAIN groupTags[h].tags :
                LET f == groupTags[h].tags[l]
                IN /\ f \in DOMAIN tags'
                   /\ tags'[f].value = tags[f].value
                   /\ history'[f] = history[f]
                   /\ SubsOf(subscribers', f) = SubsOf(subscribers, f) ]_vars

UnknownLocal ==
  /\ steps' = steps + 1
  /\ lastOp'.op \in {"group.setValue", "group.getValue", "group.subscribe"}
  /\ lastOp'.arg \notin DOMAIN groupTags[lastOp'.group].tags

\* C9 (as the spec states it): TagGroup.setValue, getValue and subscribe with
\* a local name never added to the group each fail with the not-in-group
\* error and leave the registry as it was.
C9_UnknownLocalNameFails ==
  [][ UnknownLocal
      => /\ lastOp'.threw = "TagNotInGroup"
         /\ ProviderUnchanged
         /\ subs' = subs ]_vars

\* C9 (amended): with a local name never added to the group, setValue and
\* subscribe fail with the not-in-group error and getValue returns undefined
\* without an error; all three leave the registry as it was (no tag is
\* registered, no subscription added, no callback called).
C9_UnknownLocalName ==
  [][ UnknownLocal
      => /\ IF lastOp'.op = "group.getValue"
            THEN lastOp'.threw = "none" /\ lastOp'.ret = Undefined
            ELSE lastOp'.threw = "TagNotInGroup"
         /\ ProviderUnchanged
         /\ groupTags' = groupTags
         /\ subs' = subs
         /\ lastOp'.calls = <<>> ]_vars

\* A write through a group to a local name that only another group has added.
C9_Witness ==
  /\ lastOp.op = "group.setValue"
  /\ lastOp.threw = "TagNotInGroup"
  /\ lastOp.arg \notin DOMAIN groupTags[lastOp.group].tags
  /\ \E h \in Groups : lastOp.arg \in DOMAIN groupTags[h].tags

\* The value an accepted write of v leaves in the tag: v itself when no set
\* bound is violated, otherwise the violated bound (with min > max, where
\* every value violates a bound, one of the two bounds).
IsClamped(tag, v, stored) ==
  IF ~(tag.min # Null /\ Lt(v, tag.min)) /\ ~(tag.max # Null /\ Lt(tag.max, v))
  THEN stored = v
  ELSE IF tag.min # Null /\ tag.max # Null /\ Lt(tag.max, tag.min)
       THEN stored \in {tag.min, tag.max}
       ELSE stored = (IF tag.min # Null /\ Lt(v, tag.min) THEN tag.min ELSE tag.max)

\* C11 (as the spec states it): whenever setParam(key, v) of a tag-bound model returns normally,
\* model.params[key] equals getValue('{group}.{key}'), and both equal v
\* clamped to the tag's bounds (v itself when in range or unbounded).
C11_SetParamFinalState ==
  [][ (Called("setParam") /\ lastOp'.threw = "none")
      => LET m == lastOp'.group
             key == lastOp'.arg
             full == FullName(models[m].name, key)
         IN /\ full \in DOMAIN tags'
            /\ models'[m].params[key] = tags'[full].value
            /\ IsClamped(tags'[full], lastOp'.value, tags'[full].value) ]_vars

\* The subscription bindTagsToParams made for key of model m is registered
\* under the tag named full.
Bound(m, key, full) ==
  \E i \in 1..Len(SubsOf(subscribers, full)) :
     SubsOf(subscribers, full)[i].cb = CbBind(m, key)

\* C12 (as the spec states it): whenever an accepted setValue made by a
\* caller other than the model on the tag '{group}.{key}' of a key of a
\* constructed model's params returns, params[key] is the stored value and
\* onParameterChange(key, stored value) has been called; also after a
\* registerTag on that name and after clear().
C12_ExternalWriteReachesParams ==
  [][ (Called("setValue") /\ lastOp'.threw = "none")
      => \A m \in 1..Len(models) : \A key \in DOMAIN models[m].params :
           (models[m].constructed /\ lastOp'.arg = FullName(models[m].name, key))
           => /\ models'[m].params[key] = tags'[lastOp'.arg].value
              /\ [model |-> m, key |-> key, value |-> tags'[lastOp'.arg].value]
                   \in Range(lastOp'.hooks) ]_vars

\* C13: a construction that completes registers every declared key with the
\* value getDefaultParams() gives it while params holds the supplied value,
\* and writes nothing: the tag's log is empty, no alarm is added, and no
\* subscriber and no hook is called.
C13_TagsFromDeclaredDefaults ==
  [][ (Called("new ModelBase") /\ lastOp'.threw = "none")
      => LET m == lastOp'.group
             supplied == lastOp'.arg
         IN /\ \A i \in 1..Len(GetDefaultParams) :
                 LET key == GetDefaultParams[i].key
                     full == FullName(models'[m].name, key)
                 IN /\ tags'[full].value = GetDefaultParams[i].value
                    /\ history'[full] = <<>>
                    /\ key \notin Range(Keys(supplied))
                       => models'[m].params[key] = GetDefaultParams[i].value
            /\ \A i \in 1..Len(supplied) :
                 models'[m].params[supplied[i].key] = supplied[i].value
            /\ alarms' = alarms
            /\ lastOp'.calls = <<>>
            /\ lastOp'.hooks = <<>> ]_vars

\* A model built with w overridden, on a name that had a subscriber waiting.
C13_Witness ==
  /\ lastOp.op = "new ModelBase"
  /\ lastOp.threw = "none"
  /\ models[1].params[<<"w">>] = Num(9)
  /\ tags[ModelTag].value = Num(3)
  /\ Len(SubsOf(subscribers, ModelTag)) = 2

\* The onParameterChange calls of model m among hooks.
HooksOf(hooks, m) == SelectSeq(hooks, LAMBDA h : h.model = m)

\* C14 (as the spec states it): during one setParam(key, v) that returns the
\* hook is called twice, first with the raw value for the local assignment,
\* then with the clamped value for the tag-driven one.
C14_HookFiresTwice ==
  [][ (Called("setParam") /\ lastOp'.threw = "none")
      => LET m == lastOp'.group
             key == lastOp'.arg
             stored == tags'[FullName(models[m].name, key)].value
         IN HooksOf(lastOp'.hooks, m) =
              << [model |-> m, key |-> key, value |-> lastOp'.value],
                 [model |-> m, key |-> key, value |-> stored] >> ]_vars

\* C14 (amended): setParam does not call the hook for its local assignment;
\* the hook is called only by the model's subscription on the tag: once,
\* with the stored (clamped) value, when the write is accepted and that
\* subscription is registered, and not at all otherwise.
C14_HookFiresOnce ==
  [][ Called("setParam")
      => LET m == lastOp'.group
             key == lastOp'.arg
             full == FullName(models[m].name, key)
         IN HooksOf(lastOp'.hooks, m) =
              IF lastOp'.threw = "none" /\ Bound(m, key, full)
              THEN << [model |-> m, key |-> key, value |-> tags'[full].value] >>
              ELSE <<>> ]_vars

\* A setParam(w, 9) whose one hook call carried the maximum of the tag.
C14_Witness ==
  /\ lastOp.op = "setParam"
  /\ lastOp.threw = "none"
  /\ lastOp.value = Num(9)
  /\ lastOp.hooks = << [model |-> 1, key |-> <<"w">>, value |-> Num(High)] >>

\* The entry fails when applied: its key is not a local name of the group
\* whose Map is gt, or its tag is registered and not writeable.
EntryFails(gt, e) ==
  \/ e.key \notin DOMAIN gt
  \/ gt[e.key] \in DOMAIN tags /\ ~Truthy(tags[gt[e.key]].writeable)

\* The place of the first failing entry of mapping, Len(mapping) + 1 if none.
FirstFailure(gt, mapping) ==
  LET failing == {i \in 1..Len(mapping) : EntryFails(gt, mapping[i])}
  IN IF failing = {} THEN Len(mapping) + 1
     ELSE CHOOSE i \in failing : \A j \in failing : i <= j

\* C17: setValues and setParams apply their entries in order without
\* rollback. With the i-th entry the first to fail (unknown local name or
\* read-only tag), the call throws that entry's error; every entry before i
\* is committed (the clamped value stored, one history entry appended, every
\* subscriber of the tag called with the stored value); no entry after i is
\* applied (tag, log and, for setParams, the parameter are as before, and no
\* subscriber of its tag is called). With no failing entry the call returns.
C17_NoRollback ==
  [][ (steps' = steps + 1 /\ lastOp'.op \in {"setParams", "group.setValues"})
      => LET g == IF lastOp'.op = "setParams" THEN models[lastOp'.group].tagGroup
                  ELSE lastOp'.group
             gt == groupTags[g].tags
             mapping == lastOp'.arg
             first == FirstFailure(gt, mapping)
         IN /\ lastOp'.threw =
                 IF first > Len(mapping) THEN "none"
                 ELSE IF mapping[first].key \notin DOMAIN gt THEN "TagNotInGroup"
                 ELSE "ReadOnly"
            /\ \A j \in 1..(first - 1) :
                 LET f == gt[mapping[j].key]
                 IN /\ f \in DOMAIN tags'
                    /\ IsClamped(tags'[f], mapping[j].value, tags'[f].value)
                    /\ history'[f] =
                         Append(SubsOf(history, f),
                                [value |-> tags'[f].value, timestamp |-> now,
                                 quality |-> "GOOD"])
                    /\ \A i \in 1..Len(SubsOf(subscribers, f)) :
                         \E c \in 1..Len(lastOp'.calls) :
                            /\ lastOp'.calls[c].id = SubsOf(subscribers, f)[i].id
                            /\ lastOp'.calls[c].name = f
                            /\ lastOp'.calls[c].value = tags'[f].value
            /\ \A j \in (first + 1)..Len(mapping) :
                 LET key == mapping[j].key
                 IN /\ key \in DOMAIN gt
                       => /\ gt[key] \in DOMAIN tags <=> gt[key] \in DOMAIN tags'
                          /\ gt[key] \in DOMAIN tags => tags'[gt[key]] = tags[gt[key]]
                          /\ SubsOf(history', gt[key]) = SubsOf(history, gt[key])
                          /\ \A c \in 1..Len(lastOp'.calls) : lastOp'.calls[c].name # gt[key]
                    /\ lastOp'.op = "setParams"
                       => LET before == models[lastOp'.group].params
                              after == models'[lastOp'.group].params
                          IN /\ key \in DOMAIN before <=> key \in DOMAIN after
                             /\ key \in DOMAIN before => after[key] = before[key] ]_vars

\* A setParams that failed at its second entry, an unknown key, with the
\* first entry written and notified and the third not applied.
C17_Witness ==
  /\ lastOp.op = "setParams"
  /\ lastOp.threw = "TagNotInGroup"
  /\ Len(lastOp.arg) = 3
  /\ tags[FullName(ModelName, <<"h">>)].value = Num(9)
  /\ Len(lastOp.calls) = 1
  /\ tags[ModelTag].value # Num(0)

\* C15: calling the function subscribe(names, cb) returned removes the entry
\* of that subscription under every name and nothing else: under every name
\* the other entries stay, in their order, whatever their callback; tags,
\* logs and alarms are untouched and no callback runs. A call that finds no
\* entry of its subscription (a second call, a call after clear()) changes
\* nothing.
C15_UnsubscribeRemovesOnlyItsOwn ==
  [][ Called("unsubscribe")
      => LET id == lastOp'.ret.n
             others(n) == SelectSeq(SubsOf(subscribers, n), LAMBDA e : e.id # id)
             present == \E n \in DOMAIN subscribers :
                           \E i \in 1..Len(subscribers[n]) : subscribers[n][i].id = id
         IN /\ DOMAIN subscribers' = DOMAIN subscribers
            /\ \A n \in DOMAIN subscribers : subscribers'[n] = others(n)
            /\ ~present => subscribers' = subscribers
            /\ UNCHANGED <<tags, tagKeys, history, alarms, subs>>
            /\ lastOp'.calls = <<>> ]_vars

\* The subscription on two names was removed from both, and under the first
\* name a later subscription with the same callback is still registered.
C15_Witness ==
  /\ lastOp.op = "unsubscribe"
  /\ subs[lastOp.ret.n].tags = <<NameAW, NameABW>>
  /\ NameABW \in DOMAIN subscribers
  /\ subscribers[NameABW] = <<>>
  /\ Len(SubsOf(subscribers, NameAW)) = 1
  /\ subscribers[NameAW][1].id > lastOp.ret.n
  /\ subscribers[NameAW][1].cb = subs[lastOp.ret.n].callback

\* The severities of the alarms a write of v to tag is to raise: LOW when v is
\* below a set minimum, HIGH when v is above a set maximum.
Violations(tag, v) ==
  (IF tag.min # Null /\ Lt(v, tag.min) THEN <<"LOW">> ELSE <<>>)
  \o (IF tag.max # Null /\ Lt(tag.max, v) THEN <<"HIGH">> ELSE <<>>)

IsPrefix(s, t) == Len(s) <= Len(t) /\ SubSeq(t, 1, Len(s)) = s

\* C16 (as the spec states it): an accepted setValue appends an alarm to
\* the tag's list exactly when the supplied value violates a set bound (LOW
\* for value < min, HIGH for value > max, not acknowledged); the write still
\* goes through (the call returns the tag, a history entry with the stored
\* value is appended); and no call but clear() removes an alarm.
C16_AlarmExactlyOnViolation ==
  [][ /\ (Called("setValue") /\ lastOp'.threw = "none")
         => LET T == lastOp'.arg
                old == SubsOf(alarms, T)
                new == SubsOf(alarms', T)
                raised == Violations(tags'[T], lastOp'.value)
            IN /\ Len(new) = Len(old) + Len(raised)
               /\ \A i \in 1..Len(raised) :
                    /\ new[Len(old) + i].severity = raised[i]
                    /\ ~new[Len(old) + i].acknowledged
               /\ lastOp'.ret = tags'[T]
               /\ Len(history'[T]) > 0
               /\ history'[T][Len(history'[T])].value = tags'[T].value
      /\ (steps' = steps + 1 /\ lastOp'.op # "clear")
         => \A n \in DOMAIN alarms :
              n \in DOMAIN alarms' /\ IsPrefix(alarms[n], alarms'[n]) ]_vars

\* The pattern as a glob: a star matches any run of characters, every other
\* character, the dot included, only itself.
RECURSIVE GlobMatch(_, _)
GlobMatch(pattern, name) ==
  IF pattern = <<>> THEN name = <<>>
  ELSE IF Head(pattern) = Star
       THEN GlobMatch(Tail(pattern), name)
            \/ (name # <<>> /\ GlobMatch(pattern, Tail(name)))
       ELSE /\ name # <<>>
            /\ Head(pattern) = Head(name)
            /\ GlobMatch(Tail(pattern), Tail(name))

\* C18 (as the spec states it): getTags(pattern) returns, in registration
\* order, exactly the tags whose name matches the pattern as a glob in which
\* only the star is special; getTags('*') returns every tag.
C18_GetTagsIsGlob ==
  [][ Called("getTags")
      => LET all == [i \in 1..Len(tagKeys) |-> tags[tagKeys[i]]]
         IN /\ lastOp'.ret = SelectSeq(all, LAMBDA tag : GlobMatch(lastOp'.arg, tag.name))
            /\ lastOp'.arg = <<Star>> => lastOp'.ret = all ]_vars

\* C19 (as the spec states it): getHistory(name, limit) with limit >= 0
\* returns the min(limit, length) most recent entries of the tag's log,
\* oldest first, and the empty sequence for an unknown tag; the registry is
\* as before.
C19_GetHistoryMostRecent ==
  [][ Called("getHistory")
      => LET log == SubsOf(history, lastOp'.arg)
             limit == lastOp'.value.n
             count == IF limit < Len(log) THEN limit ELSE Len(log)
         IN /\ lastOp'.ret = SubSeq(log, Len(log) - count + 1, Len(log))
            /\ ProviderUnchanged ]_vars

\* C20 (as the spec states it): a forced write succeeds on a tag that is not
\* writeable, and importValues never fails: for every entry, a record with
\* a value field or a bare value of any kind, the named tag exists
\* afterwards and holds the clamped entry value (and the record's quality).
C20_ImportAlwaysWrites ==
  [][ /\ (Called("setValue") /\ lastOp'.options.force) => lastOp'.threw = "none"
      /\ Called("importValues")
         => /\ lastOp'.threw = "none"
            /\ \A i \in 1..Len(lastOp'.arg) :
                 LET e == lastOp'.arg[i]
                 IN /\ e.name \in DOMAIN tags'
                    /\ IsClamped(tags'[e.name], e.value, tags'[e.name].value)
                    /\ (e.record /\ e.quality # "undefined")
                       => tags'[e.name].quality = e.quality ]_vars

\* C21: clear() leaves no tag, no subscription, no log and no alarm and
\* calls no subscriber and no hook; a later setValue on a name that is not
\* registered is a write to an unknown name (accepted, the tag created
\* writeable and without bounds, holding the value) and calls only the
\* subscriptions registered under the name at that time, in which no
\* subscription made before the clear() is left.
C21_ClearForgetsEverything ==
  [][ /\ Called("clear")
         => /\ tags' = EmptyMap /\ tagKeys' = <<>>
            /\ subscribers' = EmptyMap
            /\ history' = EmptyMap
            /\ alarms' = EmptyMap
            /\ lastOp'.calls = <<>>
            /\ lastOp'.hooks = <<>>
      /\ (Called("setValue") /\ lastOp'.arg \notin DOMAIN tags)
         => LET T == lastOp'.arg
            IN /\ lastOp'.threw = "none"
               /\ tags'[T].min = Null /\ tags'[T].max = Null
               /\ Truthy(tags'[T].writeable)
               /\ tags'[T].value = lastOp'.value
               /\ history'[T] = <<[value |-> lastOp'.value, timestamp |-> now,
                                   quality |-> QualityOf(lastOp'.options)]>>
               /\ Ids(lastOp'.calls) = Ids(SubsOf(subscribers, T)) ]_vars

\* A write to a name whose tag and subscriptions a clear() removed: the
\* closures of the subscriptions on it exist, the name has no entry in the
\* subscribers Map, and nobody was called.
C21_Witness ==
  /\ lastOp.op = "setValue"
  /\ lastOp.threw = "none"
  /\ lastOp.calls = <<>>
  /\ lastOp.arg \notin DOMAIN subscribers
  /\ \E id \in DOMAIN subs : lastOp.arg \in Range(subs[id].tags)
  /\ tags[lastOp.arg].value = Num(9)

\* C22: registerTag on a registered name returns and overwrites the record:
\* the tag holds the new config's default value (null when none), bounds
\* and writeable flag, with quality GOOD and the current time, and its log
\* is empty; no subscriber is called; the subscriptions and the alarm list
\* of the name, the key order and every other tag and log are as before.
C22_ReRegisterOverwrites ==
  [][ (Called("registerTag") /\ lastOp'.arg \in DOMAIN tags)
      => LET T == lastOp'.arg
             config == lastOp'.value
         IN /\ lastOp'.threw = "none"
            /\ tags'[T] =
                 [name |-> T,
                  value |-> IF config.defaultValue = Undefined THEN Null
                            ELSE config.defaultValue,
                  min |-> IF config.min = Undefined THEN Null ELSE config.min,
                  max |-> IF config.max = Undefined THEN Null ELSE config.max,
                  quality |-> "GOOD",
                  timestamp |-> now,
                  writeable |-> IF config.writeable = Undefined THEN Bool(TRUE)
                                ELSE config.writeable]
            /\ history'[T] = <<>>
            /\ lastOp'.calls = <<>>
            /\ lastOp'.hooks = <<>>
            /\ subscribers' = subscribers
            /\ alarms' = alarms
            /\ tagKeys' = tagKeys
            /\ DOMAIN tags' = DOMAIN tags
            /\ \A n \in DOMAIN tags \ {T} :
                 tags'[n] = tags[n] /\ history'[n] = history[n] ]_vars

\* A tag with a subscription, an alarm and a written value was registered
\* again, read-only this time, next to another tag.
C22_Witness ==
  /\ lastOp.op = "registerTag"
  /\ lastOp.arg \in DOMAIN alarms
  /\ Len(SubsOf(subscribers, lastOp.arg)) > 0
  /\ history[lastOp.arg] = <<>>
  /\ ~Truthy(tags[lastOp.arg].writeable)
  /\ Cardinality(DOMAIN tags) = 2

\* C23 (as the docs state it): a concrete model made as
\* new ModelClass(params, tagProvider) has a tag group and holds the class
\* defaults overlaid with the supplied params; its setParam(key, v) that
\* returns leaves v (clamped) in the provider's tag of the key and calls
\* the callbacks subscribed through model.tagGroup, and subscribing
\* through model.tagGroup succeeds for a declared key.
C23_ConcreteModelIsTagBound ==
  [][ /\ (Called("new ModelClass") /\ lastOp'.threw = "none")
         => LET m == lastOp'.group
                own == Spread(GetDefaultParams, lastOp'.arg)
            IN /\ models'[m].tagGroup # 0
               /\ models'[m].params = own.params
      /\ (Called("setParam") /\ lastOp'.threw = "none"
            /\ lastOp'.arg \in Range(Keys(GetDefaultParams)))
         => LET m == lastOp'.group
            IN /\ models[m].tagGroup # 0
               /\ lastOp'.arg \in DOMAIN TagsOf(m)
               /\ TagsOf(m)[lastOp'.arg] \in DOMAIN tags'
               /\ IsClamped(tags'[TagsOf(m)[lastOp'.arg]], lastOp'.value,
                            tags'[TagsOf(m)[lastOp'.arg]].value)
               /\ Ids(SubsOf(subscribers, TagsOf(m)[lastOp'.arg])) = Ids(lastOp'.calls)
      /\ (Called("tagGroup.subscribe") /\ lastOp'.arg \in Range(Keys(GetDefaultParams)))
         => lastOp'.threw = "none" ]_vars

\* C24 (as the docs state it): a callback subscribed under '*' is called,
\* with the stored value, on every accepted write to any tag.
C24_StarHearsEveryWrite ==
  [][ (Called("setValue") /\ lastOp'.threw = "none")
      => \A i \in 1..Len(SubsOf(subscribers, NameStar)) :
           \E c \in 1..Len(lastOp'.calls) :
              /\ lastOp'.calls[c].id = SubsOf(subscribers, NameStar)[i].id
              /\ lastOp'.calls[c].name = lastOp'.arg
              /\ lastOp'.calls[c].value = tags'[lastOp'.arg].value ]_vars

\* The calls made to subscription id, in their order.
CallsTo(calls, id) == SelectSeq(calls, LAMBDA c : c.id = id)

\* Some subscriber was called a second time: a callback of the pass wrote
\* the notified tag.
Reentered(calls) ==
  \E c \in 1..Len(calls) : \E d \in 1..(c - 1) : calls[c].id = calls[d].id

\* C25 (as the spec states it): after a setValue during which a callback
\* wrote the notified tag, the last value delivered to every subscriber of
\* the tag is the stored value, and every call was handed a value equal to
\* the value of the tag record at that moment.
C25_NoStaleValueOnReentry ==
  [][ (Called("setValue") /\ lastOp'.threw = "none" /\ Reentered(lastOp'.calls))
      => LET T == lastOp'.arg
             entries == SubsOf(subscribers, T)
         IN /\ \A i \in 1..Len(entries) :
                 LET mine == CallsTo(lastOp'.calls, entries[i].id)
                 IN Len(mine) > 0 /\ mine[Len(mine)].value = tags'[T].value
            /\ \A c \in 1..Len(lastOp'.calls) :
                 lastOp'.calls[c].tag.value = lastOp'.calls[c].value ]_vars

\* The log of tagName in the Map h, empty when it has none.
LogOf(h, tagName) == IF tagName \in DOMAIN h THEN h[tagName] ELSE <<>>

\* The log new is the log old with one entry appended (and the oldest
\* dropped at the cap).
OneMore(old, new) ==
  /\ Len(new) > 0
  /\ LET body == SubSeq(new, 1, Len(new) - 1)
     IN \/ body = old
        \/ Len(old) = HistoryCap /\ body = Tail(old)

\* The step wrote tagName exactly once: one entry more in its log, every
\* other log as it was, and every subscriber of tagName called once.
WroteOnce(tagName) ==
  /\ OneMore(LogOf(history, tagName), LogOf(history', tagName))
  /\ \A n \in DOMAIN history' \ {tagName} :
        n \in DOMAIN history /\ history'[n] = history[n]
  /\ Len(lastOp'.calls) = Len(SubsOf(subscribers, tagName))
  /\ \A i \in 1..Len(SubsOf(subscribers, tagName)) :
        Len(CallsTo(lastOp'.calls, SubsOf(subscribers, tagName)[i].id)) = 1

\* The step wrote nothing to the registry and called nobody.
WroteNothing == history' = history /\ tags' = tags /\ lastOp'.calls = <<>>

\* C26 (as the spec states it): every setParam call on a tag-bound model
\* appends exactly one history entry and notifies each subscriber once, and
\* an external setValue on a model's tag performs no further write.
C26_EverySetParamWritesOnce ==
  [][ /\ (Called("setParam") /\ models[lastOp'.group].tagGroup # 0)
         => WroteOnce(FullName(models[lastOp'.group].name, lastOp'.arg))
      /\ (Called("setValue") /\ lastOp'.threw = "none")
         => WroteOnce(lastOp'.arg) ]_vars

\* C26 (amended): a setParam call on a tag-bound model that returns has
\* written its tag exactly once (one history entry appended, each subscriber
\* called once, no other log touched), one that throws (the key is not in
\* the group, the tag is read-only) has written nothing and called nobody;
\* an accepted external setValue on a model's tag is that one write and no
\* further one, a rejected one writes nothing.
C26_BindingNeverFeedsBack ==
  [][ /\ (Called("setParam") /\ models[lastOp'.group].tagGroup # 0)
         => IF lastOp'.threw = "none"
            THEN WroteOnce(FullName(models[lastOp'.group].name, lastOp'.arg))
            ELSE WroteNothing
      /\ Called("setValue")
         => IF lastOp'.threw = "none" THEN WroteOnce(lastOp'.arg)
            ELSE WroteNothing ]_vars

\* A setParam(w, 9) that returned, with the model's own subscription and
\* another subscriber on the tag each called once and one entry in the log.
C26_Witness ==
  /\ lastOp.op = "setParam"
  /\ lastOp.threw = "none"
  /\ lastOp.arg = <<"w">>
  /\ Len(lastOp.calls) = 2
  /\ Len(lastOp.hooks) = 1
  /\ Len(LogOf(history, ModelTag)) = 1

\* The number of alarm records of tagName in the Map a.
AlarmCount(a, tagName) == IF tagName \in DOMAIN a THEN Len(a[tagName]) ELSE 0

\* C27: a setValue the read-only check rejects raises no alarm, commits
\* nothing and notifies nobody; in an accepted one (whose callbacks do not
\* write the tag) every callback already reads the stored value from
\* getValue, finds the entry of this write (value, timestamp, quality) last
\* in the log and the alarms of this write raised; and no callback runs in
\* a step that is not a setValue.
C27_CommitBeforeNotify ==
  [][ /\ (Called("setValue") /\ lastOp'.threw # "none")
         => /\ UNCHANGED <<tags, history, alarms>>
            /\ lastOp'.calls = <<>>
      /\ (Called("setValue") /\ lastOp'.threw = "none" /\ ~Reentered(lastOp'.calls))
         => LET T == lastOp'.arg
                stored == tags'[T]
            IN \A i \in 1..Len(lastOp'.seen) :
                 /\ lastOp'.seen[i].value = stored.value
                 /\ lastOp'.seen[i].last =
                      << [value |-> stored.value, timestamp |-> now,
                          quality |-> QualityOf(lastOp'.options)] >>
                 /\ lastOp'.seen[i].last = << history'[T][Len(history'[T])] >>
                 /\ lastOp'.seen[i].alarms = AlarmCount(alarms', T)
      /\ (steps' = steps + 1 /\ lastOp'.op # "setValue")
         => lastOp'.calls = <<>> /\ lastOp'.seen = <<>> ]_vars

\* An accepted write above the maximum whose reading callback saw the
\* maximum stored, and the HIGH alarm already raised.
C27_Witness ==
  /\ lastOp.op = "setValue"
  /\ lastOp.threw = "none"
  /\ lastOp.value = Num(9)
  /\ Len(lastOp.seen) > 0
  /\ lastOp.seen[1].value = Num(High)
  /\ lastOp.seen[1].alarms = 1

\* C28 (as the spec states it): the oldValue handed to the subscribers by
\* setValue(name, v) is what getValue(name) returned right before the call:
\* the stored value of a registered tag, undefined for an unknown name.
C28_OldValueIsValueBefore ==
  [][ (Called("setValue") /\ lastOp'.threw = "none" /\ ~Reentered(lastOp'.calls))
      => \A c \in 1..Len(lastOp'.calls) :
           lastOp'.calls[c].oldValue = GetValue(Reg, lastOp'.arg) ]_vars

\* C29 (as the spec states it): in every reachable state every tag with
\* both min and max set and a non-null value has min <= value <= max.
C29_ValueWithinBounds ==
  \A n \in DOMAIN tags :
     (tags[n].min # Null /\ tags[n].max # Null /\ tags[n].value # Null)
     => InRange(tags[n], tags[n].value)

\* C30 (as the spec states it): a setValue call appends at most one alarm
\* record, for every tag registerTag accepts.
C30_AtMostOneAlarmPerWrite ==
  [][ Called("setValue")
      => AlarmCount(alarms', lastOp'.arg) <= AlarmCount(alarms, lastOp'.arg) + 1 ]_vars

\* The log new keeps the entries of old, unchanged and in order, with at
\* most one entry appended (and the oldest evicted at the cap).
Kept(old, new) == new = old \/ OneMore(old, new)

\* C31 (as the spec states it): apart from eviction at the cap an entry once
\* appended stays in its log, and only clear() empties a log.
C31_OnlyClearEmptiesALog ==
  [][ (steps' = steps + 1 /\ lastOp'.op # "clear")
      => \A n \in DOMAIN history :
           n \in DOMAIN history' /\ Kept(history[n], history'[n]) ]_vars

\* The step called registerTag on the name n: directly, or through the
\* addTag calls of a model's constructor for the model's declared keys.
Reregistered(n) ==
  \/ lastOp'.op = "registerTag" /\ lastOp'.arg = n
  \/ /\ lastOp'.op = "new ModelBase"
     /\ \E key \in Range(Keys(GetDefaultParams)) :
          n = FullName(models'[lastOp'.group].name, key)

\* C31 (amended): a log changes only by an accepted write appending one
\* entry (evicting the oldest at the cap); clear() drops every log, and
\* registerTag on a registered name (called directly or by a model's
\* constructor) empties the log of that name and no other.
C31_AppendOnlyUntilReset ==
  [][ steps' = steps + 1
      => IF lastOp'.op = "clear" THEN history' = EmptyMap
         ELSE \A n \in DOMAIN history :
                /\ n \in DOMAIN history'
                /\ IF Reregistered(n) THEN history'[n] = <<>>
                   ELSE Kept(history[n], history'[n]) ]_vars

\* A second accepted write to a tag, with the entry of the first one still
\* in front of it in the log.
C31_Witness ==
  /\ lastOp.op = "setValue"
  /\ lastOp.threw = "none"
  /\ lastOp.arg \in DOMAIN history
  /\ Len(history[lastOp.arg]) = 2
  /\ history[lastOp.arg][1].value # history[lastOp.arg][2].value

\* The last entry of every non-empty log is its tag's current value,
\* timestamp and quality.
LastEntryIsCurrent ==
  \A n \in DOMAIN history :
     Len(history[n]) > 0
     => /\ n \in DOMAIN tags
        /\ history[n][Len(history[n])] =
             [value |-> tags[n].value, timestamp |-> tags[n].timestamp,
              quality |-> tags[n].quality]

\* The timestamps of every log are non-decreasing.
TimestampsAscend ==
  \A n \in DOMAIN history : \A i \in 1..Len(history[n]) : \A j \in 1..i :
     history[n][j].timestamp <= history[n][i].timestamp

\* C32: between calls the last entry of every non-empty log equals its
\* tag's current (value, timestamp, quality) and the timestamps of every log
\* are non-decreasing; an accepted write (none of whose callbacks wrote the
\* tag again) leaves the tag with the quality of its options, GOOD when
\* they give none, whatever the quality was before.
C32_LogTracksTag ==
  /\ [](LastEntryIsCurrent /\ TimestampsAscend)
  /\ [][ (Called("setValue") /\ lastOp'.threw = "none" /\ ~Reentered(lastOp'.calls))
         => tags'[lastOp'.arg].quality =
              (IF lastOp'.options.quality = "undefined" THEN "GOOD"
               ELSE lastOp'.options.quality) ]_vars

\* A write without options stamped GOOD, at a later time, after a write
\* stamped BAD.
C32_Witness ==
  /\ lastOp.op = "setValue"
  /\ lastOp.options.quality = "undefined"
  /\ lastOp.arg \in DOMAIN history
  /\ Len(history[lastOp.arg]) = 2
  /\ history[lastOp.arg][1].quality = "BAD"
  /\ history[lastOp.arg][2].quality = "GOOD"
  /\ history[lastOp.arg][1].timestamp < history[lastOp.arg][2].timestamp

\* C33 (as the spec states it): the construction of a tag-bound model
\* completes for every supplied params, keys that getDefaultParams() does
\* not declare included, and params is then the defaults overlaid with the
\* supplied params.
C33_ConstructionAlwaysCompletes ==
  [][ Called("new ModelBase")
      => /\ lastOp'.threw = "none"
         /\ models'[lastOp'.group].constructed
         /\ models'[lastOp'.group].params =
              Spread(GetDefaultParams, lastOp'.arg).params ]_vars

\* Every key of the params of model m is a local name of the model's group
\* whose tag is registered and carries the model's subscription.
ParamsBound(m) ==
  \A key \in DOMAIN models[m].params :
     /\ key \in DOMAIN TagsOf(m)
     /\ TagsOf(m)[key] \in DOMAIN tags
     /\ Bound(m, key, TagsOf(m)[key])

\* C34 (as the spec states it): a setParam or setParams call on a constructed
\* tag-bound model, returning or throwing, leaves every key of params a
\* local name of the group with a registered tag and the model's
\* subscription on it.
C34_ParamsStayBound ==
  [][ \A m \in 1..Len(models) :
        ((Called("setParam") \/ Called("setParams"))
         /\ lastOp'.group = m
         /\ models[m].constructed
         /\ models[m].tagGroup # 0
         /\ ParamsBound(m))
        => ParamsBound(m)' ]_vars

\* The registry names of the tags of model m's group.
FullNamesOf(m) == {TagsOf(m)[key] : key \in DOMAIN TagsOf(m)}

\* C35 (as the spec states it): after a construction the model's tags are
\* exactly '{model.name}.{key}' for its default keys, for the token models
\* too, so that models with different names share no tag.
C35_GroupNamedAfterModel ==
  [][ \A m \in 1..MaxInstances :
        (steps' = steps + 1 /\ lastOp'.op \in {"new ModelBase", "new Token"}
         /\ lastOp'.threw = "none" /\ lastOp'.group = m)
        => /\ (DOMAIN TagsOf(m))' = Range(Keys(GetDefaultParams))
           /\ \A key \in Range(Keys(GetDefaultParams)) :
                (TagsOf(m)[key])' = FullName(models'[m].name, key)
           /\ \A o \in 1..Len(models) :
                models[o].name # models'[m].name
                => FullNamesOf(o) \cap FullNamesOf(m)' = {} ]_vars

\* C36 (as the spec states it): two model instances on one registry never
\* interfere, whatever their names: constructing a model leaves the values
\* and the logs of the tags registered before as they were, and a setParam
\* on one model neither changes the params of another nor calls its hook.
C36_InstancesDoNotInterfere ==
  [][ /\ (steps' = steps + 1 /\ lastOp'.op \in {"new ModelBase", "new Token"})
         => \A n \in DOMAIN tags :
              /\ n \in DOMAIN tags' /\ tags'[n].value = tags[n].value
              /\ n \in DOMAIN history' /\ history'[n] = history[n]
      /\ Called("setParam")
         => \A o \in 1..Len(models) :
              o # lastOp'.group
              => /\ models'[o].params = models[o].params
                 /\ HooksOf(lastOp'.hooks, o) = <<>> ]_vars

\* C37 (as the spec states it): a subscription a callback creates on the
\* tag while its notification pass is running is not called in that pass:
\* every call of an accepted setValue goes to a subscription that existed
\* before the call.
C37_NewSubscriptionWaits ==
  [][ (Called("setValue") /\ lastOp'.threw = "none")
      => \A c \in 1..Len(lastOp'.calls) : lastOp'.calls[c].id \in DOMAIN subs ]_vars

\* C38 (as the spec states it): a setParam(key, v) on a tag-bound model that
\* throws leaves the model and the registry as they were: params has no new
\* key and no changed value.
C38_FailedSetParamChangesNothing ==
  [][ (Called("setParam") /\ lastOp'.threw # "none"
       /\ models[lastOp'.group].tagGroup # 0)
      => /\ models'[lastOp'.group].params = models[lastOp'.group].params
         /\ ProviderUnchanged ]_vars

====
